---- MODULE Spec2Model ----
(***************************************************************************)
(* Chat Monitor of the rukiya bot: ingestion, dedup, subscriber fan-out,   *)
(* response gate, responder call and outbound sends.                       *)
(*                                                                         *)
(* Sources: src/services/chat_monitor.py (ChatMonitor),                    *)
(*          src/services/ai_service.py (AIService),                        *)
(*          src/cogs/chat_bot.py (RukiyaCog),                              *)
(*          src/cogs/youtube_commands.py (YouTubeCommands).                *)
(*                                                                         *)
(* The program is an asyncio application: coroutines run on one event loop *)
(* and are interleaved only at awaits that really suspend (a thread        *)
(* off-load, an HTTP call, a sleep).  `running` holds the coroutine that   *)
(* owns the event loop; while it is set no other coroutine steps and the   *)
(* clock does not move.                                                    *)
(***************************************************************************)
EXTENDS Integers, Sequences, FiniteSets, TLC

(***************************************************************************)
(* Bounds of the model.                                                    *)
(***************************************************************************)
MaxTime == 2          \* clock ticks explored after construction
MaxFetch == 2         \* fetches issued in one behaviour
MaxBatch == 1         \* items in one fetch result
MaxStarts == 1        \* start_monitoring calls in one behaviour
MaxStrLen == 2        \* length of the texts fed to the gate
MaxCooldown == 2      \* largest configured ai_cooldown fed to the gate
MaxRetries == 2       \* largest `retries` argument fed to the retry wrapper
NarrowTime == 1       \* clock ticks explored when two coroutines send or tick
NarrowBatch == 1      \* items in one fetch result when two coroutines tick
MaxWelcomes == 3      \* calls of Welcome.send_message_with_retry
WelcomeTime == 9      \* clock ticks explored by the Welcome specification
OrTime == 2           \* clock ticks explored during a call of _call_openrouter
ShayariTime == 4      \* clock ticks explored by the circuit breaker specification

(***************************************************************************)
(* Configured durations, in clock ticks.  All of them are configuration    *)
(* values (Config / environment), not fixed by the code.                   *)
(***************************************************************************)
PollInterval == 1     \* ChatMonitor._poll_interval
SendCooldown == 1     \* ChatMonitor._send_cooldown
TaskInterval == 2     \* period of YouTubeCommands.monitor_task
RukiyaCooldown == 1   \* RukiyaCog.cooldown_seconds
MainCooldown == 2     \* Config.ai_cooldown used by the monitor specification

None == "None"

\* The clocks (time.time, time.monotonic, loop.time) read far more than any
\* cooldown at construction, so that the initial last_used = 0.0 and
\* _last_sent_at = 0.0 never hold a reply back.
StartClock == MaxCooldown + MainCooldown + RukiyaCooldown + 1

(***************************************************************************)
(* Strings are sequences of characters; str.lower() maps every character.  *)
(***************************************************************************)
Chars == {"r", "R", "s", "S", "x"}

LowerChar(c) == CASE c = "R" -> "r" [] c = "S" -> "s" [] OTHER -> c

Lower(s) == [i \in 1..Len(s) |-> LowerChar(s[i])]

\* Python `w in msg` on strings: w occurs in msg as a contiguous substring
Contains(w, msg) ==
    \E i \in 0..(Len(msg) - Len(w)) : SubSeq(msg, i + 1, i + Len(w)) = w

StringsUpTo(n) == UNION {[1..k -> Chars] : k \in 0..n}

(***************************************************************************)
(* AIService: the response gate.                                           *)
(***************************************************************************)
\* AIService.can_respond
can_respond(t, lastUsed, cooldown) == t - lastUsed > cooldown

\* AIService.get_cooldown_remaining
get_cooldown_remaining(t, lastUsed, cooldown) ==
    LET elapsed == t - lastUsed
    IN  IF cooldown - elapsed > 0 THEN cooldown - elapsed ELSE 0

\* the comparison without case folding
AuthorMutedExact(author, cfg) == \E u \in cfg.bot_users : author = u

AuthorMuted(author, cfg) == \E u \in cfg.bot_users : Lower(author) = Lower(u)

HitsBanned(message, cfg) == \E w \in cfg.banned_words : Contains(w, Lower(message))

\* the trigger test on the text as written
HitsTriggerRaw(message, cfg) == \E t \in cfg.ai_triggers : Contains(t, message)

HitsTrigger(message, cfg) == \E t \in cfg.ai_triggers : Contains(t, Lower(message))

\* the gate with the trigger test ahead of the banned-term test
should_respond_trigger_first(message, author, key, t, lastUsed, cfg) ==
    IF ~key THEN FALSE
    ELSE IF ~can_respond(t, lastUsed, cfg.ai_cooldown) THEN FALSE
    ELSE IF AuthorMuted(author, cfg) THEN FALSE
    ELSE IF HitsTrigger(message, cfg) THEN TRUE
    ELSE FALSE

\* AIService.should_respond
should_respond(message, author, key, t, lastUsed, cfg) ==
    IF ~key THEN FALSE
    ELSE IF ~can_respond(t, lastUsed, cfg.ai_cooldown) THEN FALSE
    ELSE IF AuthorMuted(author, cfg) THEN FALSE
    ELSE IF HitsBanned(message, cfg) THEN FALSE
    ELSE HitsTrigger(message, cfg)

(***************************************************************************)
(* State.                                                                  *)
(***************************************************************************)
VARIABLES
    now,                   \* the clock
    \* ChatMonitor
    is_running, live_chat_id, next_page_token, processed_messages,
    subscribers, last_activity_at, last_idle_message_at, monitor_task,
    idle_chat_messages,
    \* AIService
    last_used, openrouter_key, config,
    \* RukiyaCog, YouTubeCommands and Welcome
    enabled, last_sent_at, taskNext, message_queue,
    \* Shayari: the circuit breaker of its AI, and the last results of it
    ai_failure_count, ai_cooldown_until, ai_cache, gemini_model, gens,
    \* the event loop: the coroutine that runs, and every coroutine's
    \* position, call stack and locals
    running, pc, stack, frame,
    \* sendRaw calls left running in a worker thread by a cancelled coroutine
    orphans,
    \* observation: what has happened so far
    notifyCycles, gateEvals, replyGate, lastRawOkAt, earlySend,
    fetches, starts

monVars == <<is_running, live_chat_id, next_page_token, processed_messages,
             subscribers, last_activity_at, last_idle_message_at, monitor_task,
             idle_chat_messages>>
aiVars == <<last_used, openrouter_key, config>>
shVars == <<ai_failure_count, ai_cooldown_until, ai_cache, gemini_model, gens>>
cogVars == <<enabled, last_sent_at, taskNext, message_queue, shVars>>
obsVars == <<notifyCycles, gateEvals, replyGate, lastRawOkAt, earlySend,
             fetches, starts>>
vars == <<now, monVars, aiVars, cogVars, running, pc, stack, frame, orphans,
          obsVars>>

(***************************************************************************)
(* Coroutines.  "loop" is the task running ChatMonitor._monitor_loop,      *)
(* "task" is YouTubeCommands.monitor_task, "cmd" is the owner command      *)
(* `!rukiya say`, "rt" is a direct caller of send_chat_message_with_retry, *)
(* "wel" is a caller of Welcome.send_message_with_retry and "sweep" is the *)
(* task Welcome.retry_failed_messages, "ai" a caller of                    *)
(* AIService._call_openrouter.                                             *)
(***************************************************************************)
Procs == {"loop", "task", "cmd", "rt", "wel", "sweep", "ai"}

Chats == {"A"}
Tokens == {"c1"}
Ids == {"m1", "m2"}

NoMsg == [id |-> None, author |-> <<>>, text |-> <<>>]

\* items a fetch can return: two trigger messages, and an item without id
Pool == {[id |-> "m1", author |-> <<"x">>, text |-> <<"r">>],
         [id |-> "m2", author |-> <<"x">>, text |-> <<"R", "x">>],
         [id |-> None, author |-> <<"x">>, text |-> <<"r">>]}

BatchesUpTo(n) == UNION {[1..k -> Pool] : k \in 0..n}

\* Config as the monitor specification uses it
MainConfig == [ai_cooldown |-> MainCooldown,
               bot_users |-> {<<"s">>},
               banned_words |-> {<<"s">>},
               ai_triggers |-> {<<"r">>}]

ReplyText == <<"r">>                 \* what the responder answers
SayText == <<"x">>                   \* what the owner sends with `!rukiya say`
IdleMessages == <<<<"x", "x">>>>     \* a configured idle_chat_messages pool
IdleEnabled == TRUE                  \* ChatMonitor._idle_chat_enabled
IdleInterval == 2                    \* ChatMonitor._idle_chat_interval, in ticks

\* locals of a coroutine.  `reply` is the value generate_response returned
\* (<<>> stands for None), `ok` the value a send returned, `invoked` the
\* callbacks _notify_subscribers has called for the message, `subRaised`
\* whether one of them raised.  Of the current tick: `fetched` says that it
\* issued its fetch, `fetchErr` which error the adapter met in it,
\* `idleChecked` that _maybe_send_idle_message was called, and `fetchStarts`
\* how many start_monitoring calls had been made when the fetch was issued.
\* `gated` says that the generate_response call process_messages made for the
\* current message has evaluated the gate, `resp` how _call_openrouter ended
\* for it.  `raised` is the exception that ended the tick in the handler of
\* process_messages, `prevRaised` the same of the tick before.  Of the
\* Welcome cog: `slice` holds the entries the sweep has still to walk and
\* `successful` the ones it will remove, both by the number of the call that
\* queued them; `delivered` says that the send awaited last returned true.
\* `chat` is the live chat the fetch of the tick was issued for, `target`
\* the live chat a sendRaw under way was handed, `replies` the number of
\* sends for the current message that sendRaw reported successful, `snap`
\* the subscriber list as it was when the notification of the current
\* message began, `http` how the last post of _call_openrouter ended.
Frame0 == [items |-> <<>>, msg |-> NoMsg, subs |-> <<>>, text |-> <<>>,
           reply |-> <<>>, ok |-> FALSE, retries |-> 0, attempt |-> 0,
           max_attempts |-> 0, wake |-> 0, result |-> FALSE, rnow |-> 0,
           gateAt |-> 0, calls |-> 0, okAt |-> 0, invoked |-> <<>>,
           subRaised |-> FALSE, fetched |-> FALSE, fetchErr |-> "none",
           idleChecked |-> FALSE, fetchStarts |-> 0, gated |-> FALSE,
           resp |-> "none", raised |-> "none", prevRaised |-> "none",
           slice |-> <<>>, successful |-> {}, delivered |-> FALSE,
           chat |-> None, target |-> None, replies |-> 0, snap |-> <<>>,
           http |-> "none"]

\* positions at which a coroutine is suspended in an await
Suspended == {"loop_sleep", "pm_fetch_wait", "gen_http_wait", "send_wait",
              "send_cool", "retry_sleep", "sub_wait"}

\* a cancel() that never reaches the coroutine
CancelledNever(p) == FALSE

\* task.cancel() has been called on the coroutine and it has not finished
Cancelled(p) == p = "loop" /\ monitor_task = "cancelled"

\* the coroutine p may resume from its await
Resume(p) == running = None /\ ~Cancelled(p)

Goto(p, l) == pc' = [pc EXCEPT ![p] = l] /\ UNCHANGED stack

CallTo(p, l, r) ==
    /\ pc' = [pc EXCEPT ![p] = l]
    /\ stack' = [stack EXCEPT ![p] = <<r>> \o @]

Ret(p) ==
    /\ pc' = [pc EXCEPT ![p] = Head(stack[p])]
    /\ stack' = [stack EXCEPT ![p] = Tail(@)]

\* an exception leaves every frame of the tick without a handler for it and
\* reaches `except Exception` of process_messages, which returns to the driver
Unwind(p) ==
    /\ pc' = [pc EXCEPT ![p] = stack[p][Len(stack[p])]]
    /\ stack' = [stack EXCEPT ![p] = <<>>]

Bump(f, k) == IF k \in DOMAIN f THEN [f EXCEPT ![k] = @ + 1] ELSE f

(***************************************************************************)
(* Initial state: the objects as their constructors leave them.            *)
(***************************************************************************)
max_ai_failures == 3      \* Shayari.max_ai_failures
NoDeadline == 0           \* `self.ai_cooldown_until = None`: falsy, before any clock value

\* the circuit breaker of the Shayari cog after construction
BreakerInit ==
    /\ ai_failure_count = 0
    /\ ai_cooldown_until = NoDeadline
    /\ ai_cache = FALSE
    /\ gens = <<>>

\* the Shayari cog with a Gemini model
ShayariInit == gemini_model = TRUE /\ BreakerInit

\* everything but the Running state, as the constructors leave it
InitRest ==
    /\ next_page_token = None
    /\ processed_messages = {}
    /\ last_activity_at = now
    /\ last_idle_message_at = 0
    /\ monitor_task = "none"
    /\ last_used = 0
    /\ enabled = FALSE
    /\ last_sent_at = 0
    /\ taskNext = now
    /\ message_queue = <<>>
    /\ ShayariInit
    /\ orphans = 0
    /\ notifyCycles = [i \in Ids |-> 0]
    /\ gateEvals = [i \in Ids |-> 0]
    /\ replyGate = {}
    /\ lastRawOkAt = -1
    /\ earlySend = FALSE
    /\ fetches = 0
    /\ starts = 0

InitObjects ==
    /\ is_running = FALSE
    /\ live_chat_id = None
    /\ InitRest

\* the bot after its cogs are loaded, with nothing else configured than what
\* Config holds: it names no idle_chat_messages
NarrowInit ==
    /\ now = StartClock
    /\ InitObjects
    /\ idle_chat_messages = <<>>
    /\ subscribers = <<"shayari", "rukiya">>
    /\ openrouter_key = TRUE
    /\ config = MainConfig
    /\ running = None
    /\ pc = [p \in Procs |-> CASE p = "task" -> "task_wait"
                               [] p = "cmd" -> "cmd_idle"
                               [] OTHER -> "idle"]
    /\ stack = [p \in Procs |-> <<>>]
    /\ frame = [p \in Procs |-> Frame0]

\* the same bot with an idle filler pool configured
Init ==
    /\ now = StartClock
    /\ InitObjects
    /\ idle_chat_messages = IdleMessages
    /\ subscribers = <<"shayari", "rukiya">>
    /\ openrouter_key = TRUE
    /\ config = MainConfig
    /\ running = None
    /\ pc = [p \in Procs |-> CASE p = "task" -> "task_wait"
                               [] p = "cmd" -> "cmd_idle"
                               [] OTHER -> "idle"]
    /\ stack = [p \in Procs |-> <<>>]
    /\ frame = [p \in Procs |-> Frame0]

(***************************************************************************)
(* The clock.                                                              *)
(***************************************************************************)
Tick(bound) ==
    /\ running = None
    /\ now < StartClock + bound
    /\ now' = now + 1
    /\ UNCHANGED <<monVars, aiVars, cogVars, running, pc, stack, frame,
                   orphans, obsVars>>

(***************************************************************************)
(* ChatMonitor.start_monitoring and stop_monitoring.                       *)
(***************************************************************************)
\* start_monitoring without `self.processed_messages.clear()`
StartMonitoringKeepsSeen(chat) ==
    /\ running = None
    /\ starts < MaxStarts
    /\ live_chat_id' = chat
    /\ is_running' = TRUE
    /\ next_page_token' = None
    /\ processed_messages' = processed_messages
    /\ last_activity_at' = now
    /\ last_idle_message_at' = 0
    /\ IF monitor_task \in {"none", "done"}
       THEN /\ monitor_task' = "active"
            /\ pc' = [pc EXCEPT !["loop"] = "loop_sleep"]
            /\ frame' = [frame EXCEPT !["loop"] = [Frame0 EXCEPT !.wake = now]]
       ELSE UNCHANGED <<monitor_task, pc, frame>>
    /\ starts' = starts + 1
    /\ notifyCycles' = [i \in Ids |-> 0]
    /\ gateEvals' = [i \in Ids |-> 0]
    /\ UNCHANGED <<idle_chat_messages, now, subscribers, aiVars, cogVars, running, stack, orphans,
                   replyGate, lastRawOkAt, earlySend, fetches>>

\* start_monitoring(live_chat_id), called on the event loop
StartMonitoring(chat) ==
    /\ running = None
    /\ starts < MaxStarts
    /\ live_chat_id' = chat
    /\ is_running' = TRUE
    /\ next_page_token' = None
    /\ processed_messages' = {}
    /\ last_activity_at' = now
    /\ last_idle_message_at' = 0
    /\ IF monitor_task \in {"none", "done"}
       THEN /\ monitor_task' = "active"
            /\ pc' = [pc EXCEPT !["loop"] = "loop_sleep"]
            /\ frame' = [frame EXCEPT !["loop"] = [Frame0 EXCEPT !.wake = now]]
       ELSE UNCHANGED <<monitor_task, pc, frame>>
    /\ starts' = starts + 1
    /\ notifyCycles' = [i \in Ids |-> 0]
    /\ gateEvals' = [i \in Ids |-> 0]
    /\ UNCHANGED <<idle_chat_messages, now, subscribers, aiVars, cogVars, running, stack, orphans,
                   replyGate, lastRawOkAt, earlySend, fetches>>

\* the tail of stop_monitoring: the running task is cancelled
CancelMonitorTask == IF monitor_task = "active" THEN "cancelled" ELSE monitor_task

\* the assignments of stop_monitoring()
StopAssign ==
    /\ is_running' = FALSE
    /\ live_chat_id' = None
    /\ next_page_token' = None
    /\ processed_messages' = {}
    /\ monitor_task' = CancelMonitorTask
    /\ notifyCycles' = [i \in Ids |-> 0]
    /\ gateEvals' = [i \in Ids |-> 0]
    /\ UNCHANGED <<idle_chat_messages, subscribers, last_activity_at,
                   last_idle_message_at>>

\* stop_monitoring(), called on the event loop
StopMonitoring ==
    /\ running = None
    /\ StopAssign
    /\ UNCHANGED <<now, aiVars, cogVars, running, pc, stack, frame, orphans,
                   replyGate, lastRawOkAt, earlySend, fetches, starts>>

\* CancelledError reaches the cancelled loop task at its await: every frame
\* re-raises it and _monitor_loop returns.  A sendRaw already handed to a
\* worker thread keeps running.
CancelDeliver(p) ==
    /\ running = None
    /\ Cancelled(p)
    /\ pc[p] \in Suspended
    /\ monitor_task' = "done"
    /\ orphans' = IF pc[p] = "send_wait" THEN orphans + 1 ELSE orphans
    /\ pc' = [pc EXCEPT ![p] = "idle"]
    /\ stack' = [stack EXCEPT ![p] = <<>>]
    /\ frame' = [frame EXCEPT ![p] = Frame0]
    /\ UNCHANGED <<idle_chat_messages, now, is_running, live_chat_id, next_page_token,
                   processed_messages, subscribers, last_activity_at,
                   last_idle_message_at, aiVars, cogVars, running, obsVars>>

\* an abandoned sendRaw finishes in its thread
OrphanDone(success) ==
    /\ running = None
    /\ orphans > 0
    /\ orphans' = orphans - 1
    /\ lastRawOkAt' = IF success THEN now ELSE lastRawOkAt
    /\ UNCHANGED <<now, monVars, aiVars, cogVars, running, pc, stack, frame,
                   notifyCycles, gateEvals, replyGate, earlySend, fetches,
                   starts>>

(***************************************************************************)
(* The two drivers of process_messages.                                    *)
(***************************************************************************)
\* ChatMonitor._monitor_loop: `while self.is_running: await process_messages()`
LoopIter(p) ==
    /\ p = "loop"
    /\ pc[p] = "loop_sleep"
    /\ Resume(p)
    /\ now >= frame[p].wake
    /\ IF is_running
       THEN /\ fetches < MaxFetch
            /\ CallTo(p, "pm_entry", "loop_after_pm")
            /\ running' = p
            /\ UNCHANGED monitor_task
       ELSE /\ Goto(p, "idle")
            /\ monitor_task' = "done"
            /\ UNCHANGED running
    /\ UNCHANGED <<idle_chat_messages, now, is_running, live_chat_id, next_page_token,
                   processed_messages, subscribers, last_activity_at,
                   last_idle_message_at, aiVars, cogVars, frame, orphans,
                   obsVars>>

\* ChatMonitor._monitor_loop: `await asyncio.sleep(self._poll_interval)`
LoopAfterPM(p) ==
    /\ pc[p] = "loop_after_pm"
    /\ running = p
    /\ Goto(p, "loop_sleep")
    /\ frame' = [frame EXCEPT ![p] = [Frame0 EXCEPT !.wake = now + PollInterval,
                                                    !.prevRaised = frame[p].raised]]
    /\ running' = None
    /\ UNCHANGED <<now, monVars, aiVars, cogVars, orphans, obsVars>>

\* YouTubeCommands.monitor_task, one iteration of the tasks.loop
TaskFire(p) ==
    /\ p = "task"
    /\ pc[p] = "task_wait"
    /\ running = None
    /\ now >= taskNext
    /\ taskNext' = now + TaskInterval
    /\ IF is_running
       THEN /\ fetches < MaxFetch
            /\ CallTo(p, "pm_entry", "task_after_pm")
            /\ running' = p
       ELSE UNCHANGED <<pc, stack, running>>
    /\ UNCHANGED <<now, monVars, aiVars, shVars, enabled, last_sent_at, message_queue,
                   frame, orphans,
                   obsVars>>

TaskAfterPM(p) ==
    /\ pc[p] = "task_after_pm"
    /\ running = p
    /\ Goto(p, "task_wait")
    /\ frame' = [frame EXCEPT ![p] = Frame0]
    /\ running' = None
    /\ UNCHANGED <<now, monVars, aiVars, cogVars, orphans, obsVars>>

(***************************************************************************)
(* ChatMonitor.process_messages, run by coroutine p.                       *)
(***************************************************************************)
\* the guard at the head of process_messages: a tick runs only while Running
PMEntryGuard == is_running /\ live_chat_id # None

\* head of process_messages up to the off-loaded fetch
PMEntry(p) ==
    /\ pc[p] = "pm_entry"
    /\ running = p
    /\ IF PMEntryGuard
       THEN /\ Goto(p, "pm_fetch_wait")
            /\ fetches' = fetches + 1
            /\ frame' = [frame EXCEPT ![p].fetched = TRUE,
                                      ![p].fetchStarts = starts,
                                      ![p].chat = live_chat_id]
            /\ running' = None
       ELSE /\ Ret(p)
            /\ UNCHANGED <<fetches, frame, running>>
    /\ UNCHANGED <<now, monVars, aiVars, cogVars, orphans,
                   notifyCycles, gateEvals, replyGate, lastRawOkAt, earlySend,
                   starts>>

\* what the API call inside the adapter comes to when it delivers no page:
\* an empty result, or an error (the chat no longer exists, or any other)
ApiOutcomes == {"empty", "error_gone", "error_other"}

\* YouTubeService.get_chat_messages: `except Exception: return {}`; the value
\* is what asyncio.to_thread hands to process_messages, an error standing
\* for an exception raised there
get_chat_messages(api) ==
    IF api \in {"error_gone", "error_other"} THEN "empty" ELSE api

\* every exception taken as the end of the live chat
LiveChatGoneAlways(e) == TRUE

\* `"livechatid" in str(e).lower() and "not found" in str(e).lower()`
LiveChatGone(e) == e = "error_gone"

\* the fetch delivered no page: `if not response: return`, or the handler
\* `except Exception` with its stop_monitoring() when the chat is gone
PMFetchEmpty(p, api) ==
    /\ pc[p] = "pm_fetch_wait"
    /\ Resume(p)
    /\ frame' = [frame EXCEPT ![p].fetchErr = api]
    /\ IF get_chat_messages(api) = "empty"
       THEN Ret(p) /\ UNCHANGED <<monVars, notifyCycles, gateEvals>>
       ELSE /\ Unwind(p)
            /\ IF LiveChatGone(get_chat_messages(api))
               THEN StopAssign
               ELSE UNCHANGED <<monVars, notifyCycles, gateEvals>>
    /\ running' = p
    /\ UNCHANGED <<now, aiVars, cogVars, orphans, replyGate, lastRawOkAt,
                   earlySend, fetches, starts>>

\* the fetch returned a page: the cursor moves and the items are walked
PMFetchReturn(p, token, batch) ==
    /\ pc[p] = "pm_fetch_wait"
    /\ Resume(p)
    /\ next_page_token' = token
    /\ frame' = [frame EXCEPT ![p].items = batch]
    /\ Goto(p, "pm_items")
    /\ running' = p
    /\ UNCHANGED <<idle_chat_messages, now, is_running, live_chat_id, processed_messages,
                   subscribers, last_activity_at, last_idle_message_at,
                   monitor_task, aiVars, cogVars, orphans, obsVars>>

\* the test without the one on the text
IsNewWithId(item, seen) == item.id # None /\ item.id \notin seen

\* the dedup test of one item
IsNew(item, seen) == item.text # <<>> /\ item.id # None /\ item.id \notin seen

\* an item of the page whose "snippet" is null: `snippet.get(...)` raises
\* AttributeError
BadItem == [id |-> "bad", author |-> <<>>, text |-> <<>>]

Malformed(item) == item = BadItem

\* the snapshot cut down to its first callback
SnapshotFirstOnly(subs) == IF subs = <<>> THEN <<>> ELSE <<Head(subs)>>

\* `list(self.subscribers)`: the callbacks registered when the message is
\* notified, in insertion order
Snapshot(subs) == subs

\* `for item in response.get("items", [])`: skip, or mark seen and notify
PMItems(p) ==
    /\ pc[p] = "pm_items"
    /\ running = p
    /\ frame[p].items # <<>> => ~Malformed(Head(frame[p].items))
    /\ IF frame[p].items = <<>>
       THEN /\ Goto(p, "pm_idle")
            /\ UNCHANGED <<frame, processed_messages, last_activity_at,
                           notifyCycles>>
       ELSE LET item == Head(frame[p].items)
            IN  IF IsNew(item, processed_messages)
                THEN /\ processed_messages' = processed_messages \cup {item.id}
                     /\ last_activity_at' = now
                     /\ notifyCycles' = Bump(notifyCycles, item.id)
                     /\ frame' = [frame EXCEPT ![p].items = Tail(@),
                                               ![p].msg = item,
                                               ![p].subs = Snapshot(subscribers),
                                               ![p].invoked = <<>>,
                                               ![p].subRaised = FALSE,
                                               ![p].replies = 0,
                                               ![p].snap = subscribers]
                     /\ Goto(p, "pm_notify")
                ELSE /\ frame' = [frame EXCEPT ![p].items = Tail(@)]
                     /\ Goto(p, "pm_items")
                     /\ UNCHANGED <<processed_messages, last_activity_at,
                                    notifyCycles>>
    /\ UNCHANGED <<idle_chat_messages, now, is_running, live_chat_id, next_page_token, subscribers,
                   last_idle_message_at, monitor_task, aiVars, cogVars,
                   running, orphans, gateEvals, replyGate, lastRawOkAt,
                   earlySend, fetches, starts>>

\* reading a malformed item raises inside the tick: `except Exception` of
\* process_messages logs it, stops monitoring if the text of the exception
\* says that the chat is gone, and the tick returns to its driver
PMItemRaise(p) ==
    /\ pc[p] = "pm_items"
    /\ running = p
    /\ frame[p].items # <<>>
    /\ Malformed(Head(frame[p].items))
    /\ frame' = [frame EXCEPT ![p].raised = "error_other"]
    /\ Unwind(p)
    /\ IF LiveChatGone("error_other")
       THEN StopAssign
       ELSE UNCHANGED <<monVars, notifyCycles, gateEvals>>
    /\ UNCHANGED <<now, aiVars, cogVars, running, orphans, replyGate,
                   lastRawOkAt, earlySend, fetches, starts>>

\* the callbacks still to call when the loop walks self.subscribers itself
RemainingLive(rest, live, invoked) == SubSeq(live, Len(invoked) + 1, Len(live))

\* `for callback in list(self.subscribers)`: the callbacks still to call are
\* the rest of the copy, whatever the list has become
Remaining(rest, live, invoked) == rest

\* ChatMonitor._notify_subscribers: the snapshot is walked in order
PMNotify(p) ==
    /\ pc[p] = "pm_notify"
    /\ running = p
    /\ LET rest == Remaining(frame[p].subs, subscribers, frame[p].invoked)
       IN  IF rest = <<>>
           THEN /\ Goto(p, "pm_gen")
                /\ UNCHANGED frame
           ELSE /\ frame' = [frame EXCEPT ![p].subs = Tail(rest),
                                          ![p].invoked = Append(@, Head(rest))]
                /\ IF Head(rest) = "rukiya"
                   THEN CallTo(p, "ryt_entry", "pm_notify")
                   ELSE CallTo(p, "sub_entry", "pm_notify")
    /\ UNCHANGED <<now, monVars, aiVars, cogVars, running, orphans, obsVars>>

\* process_messages: `ai_response = await self.ai.generate_response(...)`
PMGen(p) ==
    /\ pc[p] = "pm_gen"
    /\ running = p
    /\ CallTo(p, "gen_entry", "pm_after_gen")
    /\ frame' = [frame EXCEPT ![p].gated = FALSE, ![p].resp = "none"]
    /\ UNCHANGED <<now, monVars, aiVars, cogVars, running, orphans, obsVars>>

\* a send is begun whatever generate_response returned
ReplyWantedAlways(reply) == TRUE

\* a send is begun exactly when generate_response returned nothing
ReplyWantedWhenEmpty(reply) == reply = <<>>

\* `if ai_response:`
ReplyWanted(reply) == reply # <<>>

\* process_messages: `if ai_response: send_chat_message_with_retry(.., retries=1)`
PMAfterGen(p) ==
    /\ pc[p] = "pm_after_gen"
    /\ running = p
    /\ IF ReplyWanted(frame[p].reply)
       THEN /\ CallTo(p, "retry_entry", "pm_after_send")
            /\ frame' = [frame EXCEPT ![p].text = frame[p].reply,
                                      ![p].retries = 1]
            /\ replyGate' = replyGate \cup {<<frame[p].msg.id, frame[p].gateAt>>}
       ELSE /\ Goto(p, "pm_items")
            /\ frame' = [frame EXCEPT ![p].msg = NoMsg, ![p].invoked = <<>>,
                                      ![p].subRaised = FALSE,
                                      ![p].gated = FALSE,
                                      ![p].resp = "none",
                                      ![p].replies = 0,
                                      ![p].snap = <<>>]
            /\ UNCHANGED replyGate
    /\ UNCHANGED <<now, monVars, aiVars, cogVars, running, orphans,
                   notifyCycles, gateEvals, lastRawOkAt, earlySend, fetches,
                   starts>>

\* process_messages: the reply was sent or given up; next item
PMAfterSend(p) ==
    /\ pc[p] = "pm_after_send"
    /\ running = p
    /\ Goto(p, "pm_items")
    /\ frame' = [frame EXCEPT ![p] = [Frame0 EXCEPT !.items = frame[p].items,
                                                    !.fetched = frame[p].fetched,
                                                    !.fetchStarts = frame[p].fetchStarts,
                                                    !.prevRaised = frame[p].prevRaised,
                                                    !.chat = frame[p].chat]]
    /\ UNCHANGED <<now, monVars, aiVars, cogVars, running, orphans, obsVars>>

\* the guards without the one on the last filler
IdleDueNoBurstGuard ==
    /\ IdleEnabled
    /\ idle_chat_messages # <<>>
    /\ live_chat_id # None /\ is_running
    /\ ~(now - last_activity_at < IdleInterval)

\* the guards of ChatMonitor._maybe_send_idle_message
IdleDue ==
    /\ IdleEnabled
    /\ idle_chat_messages # <<>>
    /\ live_chat_id # None /\ is_running
    /\ ~(now - last_activity_at < IdleInterval)
    /\ ~(last_idle_message_at # 0 /\ now - last_idle_message_at < IdleInterval)

\* ChatMonitor._maybe_send_idle_message up to its send
PMIdle(p) ==
    /\ pc[p] = "pm_idle"
    /\ running = p
    /\ IF IdleDue
       THEN \E i \in 1..Len(idle_chat_messages) :
               /\ CallTo(p, "send_entry", "pm_after_idle")
               /\ frame' = [frame EXCEPT ![p].text = idle_chat_messages[i],
                                         ![p].idleChecked = TRUE]
       ELSE /\ Ret(p)
            /\ frame' = [frame EXCEPT ![p].idleChecked = TRUE]
    /\ UNCHANGED <<now, monVars, aiVars, cogVars, running, orphans, obsVars>>

\* the filler time stamped whatever the send returned
LastIdleAlways(sent, t, lastIdle) == t

\* `if sent: self._last_idle_message_at = time.monotonic()`
LastIdleAfter(sent, t, lastIdle) == IF sent THEN t ELSE lastIdle

\* _maybe_send_idle_message after its send
PMAfterIdle(p) ==
    /\ pc[p] = "pm_after_idle"
    /\ running = p
    /\ last_idle_message_at' = LastIdleAfter(frame[p].ok, now, last_idle_message_at)
    /\ Ret(p)
    /\ UNCHANGED <<idle_chat_messages, now, is_running, live_chat_id, next_page_token,
                   processed_messages, subscribers, last_activity_at,
                   monitor_task, aiVars, cogVars, running, frame, orphans,
                   obsVars>>

(***************************************************************************)
(* A subscriber other than RukiyaCog (Shayari.on_chat_message): it returns *)
(* at once or awaits its own generation; it never reaches sendRaw.         *)
(***************************************************************************)
\* what a callback does when awaited
SubOutcomes == {"return", "suspend", "raise"}

\* `except Exception` around every callback catches nothing
NotifyCatchesNothing(kind) == FALSE

\* `except Exception` around every callback in _notify_subscribers
NotifyCatches(kind) == kind = "Exception"

SubEntry(p, outcome) ==
    /\ pc[p] = "sub_entry"
    /\ running = p
    /\ CASE outcome = "suspend" ->
              Goto(p, "sub_wait") /\ running' = None /\ UNCHANGED frame
         [] outcome = "return" ->
              Ret(p) /\ UNCHANGED <<running, frame>>
         [] outcome = "raise" ->
              /\ frame' = [frame EXCEPT ![p].subRaised = TRUE]
              /\ IF NotifyCatches("Exception") THEN Ret(p) ELSE Unwind(p)
              /\ UNCHANGED running
    /\ UNCHANGED <<now, monVars, aiVars, cogVars, orphans, obsVars>>

SubReturn(p) ==
    /\ pc[p] = "sub_wait"
    /\ Resume(p)
    /\ Ret(p)
    /\ running' = p
    /\ UNCHANGED <<now, monVars, aiVars, cogVars, frame, orphans, obsVars>>

\* callbacks a collaborator may register
SubNames == {"shayari", "welcome"}

\* subscribe and unsubscribe are plain calls: another coroutine makes them
\* while the event loop is free, a callback makes them while it runs
MayChangeSubscribers ==
    \/ running = None
    \/ running \in Procs /\ pc[running] = "sub_entry"

\* ChatMonitor.subscribe(callback): a callback is registered once
Subscribe(s) ==
    /\ MayChangeSubscribers
    /\ s \notin {subscribers[i] : i \in 1..Len(subscribers)}
    /\ subscribers' = Append(subscribers, s)
    /\ UNCHANGED <<now, is_running, live_chat_id, next_page_token,
                   processed_messages, last_activity_at, last_idle_message_at,
                   monitor_task, idle_chat_messages, aiVars, cogVars, running,
                   pc, stack, frame, orphans, obsVars>>

\* ChatMonitor.unsubscribe(callback): `self.subscribers.remove(callback)`
Unsubscribe(s) ==
    /\ MayChangeSubscribers
    /\ s \in {subscribers[i] : i \in 1..Len(subscribers)}
    /\ subscribers' = SelectSeq(subscribers, LAMBDA x : x # s)
    /\ UNCHANGED <<now, is_running, live_chat_id, next_page_token,
                   processed_messages, last_activity_at, last_idle_message_at,
                   monitor_task, idle_chat_messages, aiVars, cogVars, running,
                   pc, stack, frame, orphans, obsVars>>

(***************************************************************************)
(* AIService.generate_response(message, author), run by coroutine p for    *)
(* the message frame[p].msg.                                               *)
(***************************************************************************)
\* the gate; on permit the coroutine awaits _call_openrouter
GenEntry(p) ==
    /\ pc[p] = "gen_entry"
    /\ running = p
    /\ gateEvals' = Bump(gateEvals, frame[p].msg.id)
    /\ IF should_respond(frame[p].msg.text, frame[p].msg.author,
                         openrouter_key, now, last_used, config)
       THEN /\ Goto(p, "gen_http_wait")
            /\ frame' = [frame EXCEPT ![p].gateAt = now, ![p].gated = TRUE]
            /\ running' = None
       ELSE /\ Ret(p)
            /\ frame' = [frame EXCEPT ![p].reply = <<>>, ![p].gated = TRUE]
            /\ UNCHANGED running
    /\ UNCHANGED <<now, monVars, aiVars, cogVars, orphans, notifyCycles,
                   replyGate, lastRawOkAt, earlySend, fetches, starts>>

\* last_used stamped whatever _call_openrouter returned
LastUsedAlways(raw, t, lastUsed) == t

\* what generate_response does with the text _call_openrouter returned
\* (<<>>: it returned None): last_used moves when a reply was produced
LastUsedAfter(raw, t, lastUsed) == IF raw # <<>> THEN t ELSE lastUsed

\* _call_openrouter returned `raw`; without a key it returns None
GenHttpReturn(p, raw) ==
    /\ pc[p] = "gen_http_wait"
    /\ Resume(p)
    /\ openrouter_key \/ raw = <<>>
    /\ last_used' = LastUsedAfter(raw, now, last_used)
    /\ frame' = [frame EXCEPT ![p].reply = raw,
                              ![p].resp = IF raw = <<>> THEN "empty" ELSE "reply"]
    /\ Ret(p)
    /\ running' = p
    /\ UNCHANGED <<now, monVars, openrouter_key, config, cogVars, orphans,
                   obsVars>>

\* _call_openrouter raised: `except Exception` of generate_response logs it
\* and returns None
GenHttpRaise(p) ==
    /\ pc[p] = "gen_http_wait"
    /\ Resume(p)
    /\ frame' = [frame EXCEPT ![p].reply = <<>>, ![p].resp = "raise"]
    /\ Ret(p)
    /\ running' = p
    /\ UNCHANGED <<now, monVars, aiVars, cogVars, orphans, obsVars>>

(***************************************************************************)
(* AIService._call_openrouter(prompt), run by coroutine p: up to three     *)
(* HTTP posts with a sleep of 2 ** (attempt - 1) seconds between them.     *)
(***************************************************************************)
MaxHttpAttempts == 3      \* `for attempt in range(1, 4)`

\* how one `await client.post(...)` ends: httpx.RequestError, another
\* exception, a status of 429, 503 or another one >= 400, or a status below
\* 400 with a body that is not JSON, that is JSON but not an object, that is
\* an object without a usable text, or that holds a text
HttpOutcomes == {"request_error", "other_error", "s429", "s503", "s500",
                 "not_json", "not_object", "no_text", "text"}

\* `except httpx.RequestError` and `resp.status_code in (429, 503)`
Retryable(out) == out \in {"request_error", "s429", "s503"}

\* what the call comes to when the post ended in a way that is not retried:
\* a text, None ("empty"), or an exception that leaves the function
\* ("raise": the post raised something else than httpx.RequestError, or
\* `j.get` is applied to a JSON value that has no such method)
HttpResult(out) ==
    CASE out = "text" -> "reply"
      [] out \in {"other_error", "not_object"} -> "raise"
      [] OTHER -> "empty"

\* the head of the call: no key, no request
OrEntry(p) ==
    /\ pc[p] = "or_entry"
    /\ running = p
    /\ IF ~openrouter_key
       THEN /\ Goto(p, "or_done")
            /\ frame' = [frame EXCEPT ![p].resp = "empty", ![p].reply = <<>>]
       ELSE /\ Goto(p, "or_post_wait")
            /\ frame' = [frame EXCEPT ![p].attempt = 1, ![p].calls = 1]
    /\ running' = None
    /\ UNCHANGED <<now, monVars, aiVars, cogVars, orphans, obsVars>>

\* the post of the current attempt ended with `out`
OrPostReturn(p, out) ==
    /\ pc[p] = "or_post_wait"
    /\ running = None
    /\ IF Retryable(out) /\ frame[p].attempt < MaxHttpAttempts
       THEN /\ Goto(p, "or_sleep")
            /\ frame' = [frame EXCEPT ![p].http = out,
                                      ![p].wake = now + 2 ^ (frame[p].attempt - 1)]
       ELSE /\ Goto(p, "or_done")
            /\ frame' = [frame EXCEPT
                   ![p].http = out,
                   ![p].resp = IF Retryable(out) THEN "empty" ELSE HttpResult(out),
                   ![p].reply = IF out = "text" THEN ReplyText ELSE <<>>]
    /\ UNCHANGED <<now, monVars, aiVars, cogVars, running, orphans, obsVars>>

\* the backoff sleep is over: the next attempt posts
OrSleepDone(p) ==
    /\ pc[p] = "or_sleep"
    /\ running = None
    /\ now >= frame[p].wake
    /\ Goto(p, "or_post_wait")
    /\ frame' = [frame EXCEPT ![p].attempt = @ + 1, ![p].calls = @ + 1,
                              ![p].wake = 0]
    /\ UNCHANGED <<now, monVars, aiVars, cogVars, running, orphans, obsVars>>

\* the clock during the call: it is followed for OrTime ticks, and in any
\* case as far as a sleep under way needs
OrTick ==
    /\ running = None
    /\ \/ now < StartClock + OrTime
       \/ pc["ai"] = "or_sleep" /\ now < frame["ai"].wake
    /\ now' = now + 1
    /\ UNCHANGED <<monVars, aiVars, cogVars, running, pc, stack, frame,
                   orphans, obsVars>>

(***************************************************************************)
(* RukiyaCog.on_yt_message, called as a subscriber inside the tick of p.   *)
(***************************************************************************)
RytEntry(p) ==
    /\ pc[p] = "ryt_entry"
    /\ running = p
    /\ IF ~enabled \/ now - last_sent_at < RukiyaCooldown
       THEN Ret(p) /\ UNCHANGED frame
       ELSE /\ CallTo(p, "gen_entry", "ryt_after_gen")
            /\ frame' = [frame EXCEPT ![p].rnow = now]
    /\ UNCHANGED <<now, monVars, aiVars, cogVars, running, orphans, obsVars>>

\* `if not reply: return`, else `sent = await cm.send_chat_message(reply)`
RytAfterGen(p) ==
    /\ pc[p] = "ryt_after_gen"
    /\ running = p
    /\ IF frame[p].reply = <<>>
       THEN /\ Ret(p)
            /\ frame' = [frame EXCEPT ![p].resp = "none"]
            /\ UNCHANGED replyGate
       ELSE /\ CallTo(p, "send_entry", "ryt_after_send")
            /\ frame' = [frame EXCEPT ![p].text = frame[p].reply,
                                      ![p].resp = "none"]
            /\ replyGate' = replyGate \cup {<<frame[p].msg.id, frame[p].gateAt>>}
    /\ UNCHANGED <<now, monVars, aiVars, cogVars, running, orphans,
                   notifyCycles, gateEvals, lastRawOkAt, earlySend, fetches,
                   starts>>

\* `if sent: self._last_sent_at = now` (the `now` read on entry)
RytAfterSend(p) ==
    /\ pc[p] = "ryt_after_send"
    /\ running = p
    /\ last_sent_at' = IF frame[p].ok THEN frame[p].rnow ELSE last_sent_at
    /\ frame' = [frame EXCEPT ![p].reply = <<>>, ![p].text = <<>>,
                              ![p].ok = FALSE, ![p].rnow = 0, ![p].gateAt = 0,
                              ![p].calls = 0, ![p].okAt = 0]
    /\ Ret(p)
    /\ UNCHANGED <<now, monVars, aiVars, shVars, enabled, taskNext, message_queue,
                   running, orphans,
                   obsVars>>

\* the owner commands `!rukiya enable` and `!rukiya disable`
SetEnabled(b) ==
    /\ running = None
    /\ enabled # b
    /\ enabled' = b
    /\ UNCHANGED <<now, monVars, aiVars, shVars, last_sent_at, taskNext,
                   message_queue, running, pc,
                   stack, frame, orphans, obsVars>>

(***************************************************************************)
(* ChatMonitor.send_chat_message(text), text in frame[p].text.             *)
(***************************************************************************)
\* a sendRaw is under way in a worker thread
RawInFlight == Cardinality({p \in Procs : pc[p] = "send_wait"}) + orphans

\* the rejection with only the empty-text test
SendRejectedEmptyOnly(text, chat) == text = <<>>

\* `if not text: return False` and `if not self.live_chat_id: return False`
SendRejected(text, chat) == text = <<>> \/ chat = None

\* the two early returns, else youtube.send_message is handed to a thread
SendEntry(p) ==
    /\ pc[p] = "send_entry"
    /\ running = p
    /\ IF SendRejected(frame[p].text, live_chat_id)
       THEN /\ Ret(p)
            /\ frame' = [frame EXCEPT ![p].ok = FALSE, ![p].calls = @ + 1]
            /\ UNCHANGED <<running, earlySend>>
       ELSE /\ Goto(p, "send_wait")
            /\ frame' = [frame EXCEPT ![p].calls = @ + 1,
                                      ![p].target = live_chat_id]
            /\ earlySend' = (earlySend \/ (lastRawOkAt >= 0 /\
                                           now - lastRawOkAt < SendCooldown))
            /\ running' = None
    /\ UNCHANGED <<now, monVars, aiVars, cogVars, orphans, notifyCycles,
                   gateEvals, replyGate, lastRawOkAt, fetches, starts>>

\* the activity time stamped whatever sendRaw returned
ActivityAlways(result, t, lastActivity) == t

\* `if result: self._last_activity_at = time.monotonic()`
ActivityAfterSend(result, t, lastActivity) == IF result THEN t ELSE lastActivity

\* youtube.send_message returned `result`: activity is stamped on success and
\* the coroutine sleeps the send cooldown either way
SendReturn(p, result) ==
    /\ pc[p] = "send_wait"
    /\ Resume(p)
    /\ last_activity_at' = ActivityAfterSend(result, now, last_activity_at)
    /\ lastRawOkAt' = IF result THEN now ELSE lastRawOkAt
    /\ frame' = [frame EXCEPT ![p].result = result,
                              ![p].wake = now + SendCooldown,
                              ![p].target = None,
                              ![p].replies =
                                  IF result /\ frame[p].msg # NoMsg
                                  THEN @ + 1 ELSE @]
    /\ Goto(p, "send_cool")
    /\ UNCHANGED <<idle_chat_messages, now, is_running, live_chat_id, next_page_token,
                   processed_messages, subscribers, last_idle_message_at,
                   monitor_task, aiVars, cogVars, running, orphans,
                   notifyCycles, gateEvals, replyGate, earlySend, fetches,
                   starts>>

\* the off-loaded call raised: `except Exception: return False`, no sleep
SendRaise(p) ==
    /\ pc[p] = "send_wait"
    /\ Resume(p)
    /\ frame' = [frame EXCEPT ![p].ok = FALSE, ![p].target = None]
    /\ Ret(p)
    /\ running' = p
    /\ UNCHANGED <<now, monVars, aiVars, cogVars, orphans, obsVars>>

\* the send cooldown is over: `return bool(result)`
SendCoolDone(p) ==
    /\ pc[p] = "send_cool"
    /\ Resume(p)
    /\ now >= frame[p].wake
    /\ frame' = [frame EXCEPT ![p].ok = frame[p].result,
                              ![p].okAt = IF frame[p].result THEN frame[p].calls ELSE @,
                              ![p].result = FALSE, ![p].wake = 0]
    /\ Ret(p)
    /\ running' = p
    /\ UNCHANGED <<now, monVars, aiVars, cogVars, orphans, obsVars>>

(***************************************************************************)
(* ChatMonitor.send_chat_message_with_retry(text, retries, retry_delay).   *)
(***************************************************************************)
RetryDelay == 1       \* the retry_delay argument, in ticks

Max(a, b) == IF a > b THEN a ELSE b

\* the attempt budget without the clamp at zero
MaxAttemptsUnclamped(retries) == 1 + retries

\* `max_attempts = 1 + max(0, int(retries))`
MaxAttempts(retries) == 1 + Max(0, retries)

RetryEntry(p) ==
    /\ pc[p] = "retry_entry"
    /\ running = p
    /\ frame' = [frame EXCEPT ![p].attempt = 0,
                              ![p].max_attempts = MaxAttempts(frame[p].retries),
                              ![p].calls = 0, ![p].okAt = 0]
    /\ Goto(p, "retry_top")
    /\ UNCHANGED <<now, monVars, aiVars, cogVars, running, orphans, obsVars>>

\* the value returned when the attempts are used up
RetryExhausted == FALSE

\* `while attempt < max_attempts: ok = await self.send_chat_message(text)`
RetryTop(p) ==
    /\ pc[p] = "retry_top"
    /\ running = p
    /\ IF frame[p].attempt < frame[p].max_attempts
       THEN CallTo(p, "send_entry", "retry_after_send") /\ UNCHANGED frame
       ELSE Ret(p) /\ frame' = [frame EXCEPT ![p].ok = RetryExhausted]
    /\ UNCHANGED <<now, monVars, aiVars, cogVars, running, orphans, obsVars>>

\* `if ok: return True`; else count the attempt and wait before the next one
RetryAfterSend(p) ==
    /\ pc[p] = "retry_after_send"
    /\ running = p
    /\ IF frame[p].ok
       THEN Ret(p) /\ UNCHANGED <<frame, running>>
       ELSE IF frame[p].attempt + 1 < frame[p].max_attempts
            THEN /\ Goto(p, "retry_sleep")
                 /\ frame' = [frame EXCEPT ![p].attempt = @ + 1,
                                           ![p].wake = now + RetryDelay]
                 /\ running' = None
            ELSE /\ Goto(p, "retry_top")
                 /\ frame' = [frame EXCEPT ![p].attempt = @ + 1]
                 /\ UNCHANGED running
    /\ UNCHANGED <<now, monVars, aiVars, cogVars, orphans, obsVars>>

\* the delay between two attempts is over
RetrySleepDone(p) ==
    /\ pc[p] = "retry_sleep"
    /\ Resume(p)
    /\ now >= frame[p].wake
    /\ Goto(p, "retry_top")
    /\ frame' = [frame EXCEPT ![p].wake = 0]
    /\ running' = p
    /\ UNCHANGED <<now, monVars, aiVars, cogVars, orphans, obsVars>>

(***************************************************************************)
(* RukiyaCog.cmd_say: the owner sends a raw text to the chat.              *)
(***************************************************************************)
SayEntry(p) ==
    /\ p = "cmd"
    /\ pc[p] = "cmd_idle"
    /\ running = None
    /\ is_running
    /\ CallTo(p, "send_entry", "say_after_send")
    /\ frame' = [frame EXCEPT ![p] = [Frame0 EXCEPT !.text = SayText]]
    /\ running' = p
    /\ UNCHANGED <<now, monVars, aiVars, cogVars, orphans, obsVars>>

\* the command answers on Discord and ends
SayAfterSend(p) ==
    /\ pc[p] = "say_after_send"
    /\ running = p
    /\ Goto(p, "cmd_idle")
    /\ frame' = [frame EXCEPT ![p] = Frame0]
    /\ running' = None
    /\ UNCHANGED <<now, monVars, aiVars, cogVars, orphans, obsVars>>

(***************************************************************************)
(* Welcome: send_message_with_retry, its fallback queue, and the sweep     *)
(* retry_failed_messages.                                                  *)
(*                                                                         *)
(* The cog awaits bot.chat_monitor.send_chat_message and is written        *)
(* against any object of that name: the call is modelled by its three      *)
(* possible outcomes, a true result, a false result, and an exception.     *)
(* (ChatMonitor.send_chat_message of this repository catches every         *)
(* Exception itself and produces the first two only; main.py always sets   *)
(* bot.chat_monitor, so that the hasattr tests of the cog succeed.)        *)
(***************************************************************************)
max_retries == 3          \* Welcome.max_retries
retry_delay == 1          \* Welcome.retry_delay (2 s), in clock ticks
max_queue_size == 2       \* Welcome.max_queue_size (50), scaled down
SweepSlice == 1           \* entries one sweep walks (10), scaled down
MaxSweepAttempts == 5     \* attempts after which the sweep gives an entry up

SendOutcomes == {"true", "false", "raise"}

\* the entry of the queue made by the call with number id
EntryPos(q, id) == CHOOSE k \in 1..Len(q) : q[k].id = id

Queued(id) == \E k \in 1..Len(message_queue) : message_queue[k].id = id

\* a fallback that appends whatever the length
QueueHasRoomAlways(q) == TRUE

\* `len(self.message_queue) < self.max_queue_size`
QueueHasRoom(q) == Len(q) < max_queue_size

\* a sweep that gives up one attempt later
GivesUpLate(attempts) == attempts > MaxSweepAttempts + 1

\* `item['attempts'] > 5`
GivesUp(attempts) == attempts > MaxSweepAttempts

\* a call of send_message_with_retry; `calls` numbers the calls and is the
\* identity of the entry it may queue
WelEntry(p) ==
    /\ p = "wel"
    /\ pc[p] = "idle"
    /\ running = None
    /\ frame[p].calls < MaxWelcomes
    /\ Goto(p, "wel_top")
    /\ frame' = [frame EXCEPT ![p] = [Frame0 EXCEPT !.calls = frame[p].calls + 1]]
    /\ running' = p
    /\ UNCHANGED <<now, monVars, aiVars, cogVars, orphans, obsVars>>

\* `for attempt in range(self.max_retries)`: the next attempt awaits the
\* send; after the last one the function falls through to the fallback
WelTop(p) ==
    /\ pc[p] = "wel_top"
    /\ running = p
    /\ IF frame[p].attempt < max_retries
       THEN /\ Goto(p, "wel_send_wait")
            /\ running' = None
       ELSE /\ Goto(p, "wel_fallback")
            /\ UNCHANGED running
    /\ UNCHANGED <<now, monVars, aiVars, cogVars, frame, orphans, obsVars>>

\* the awaited send ends.  A returned value is not looked at: the function
\* returns True.  An exception sleeps (but after the last attempt) and goes
\* to the next attempt.
WelSendReturn(p, out) ==
    /\ pc[p] = "wel_send_wait"
    /\ running = None
    /\ IF out # "raise"
       THEN /\ Goto(p, "idle")
            /\ frame' = [frame EXCEPT ![p].result = TRUE,
                                      ![p].delivered = (out = "true")]
            /\ UNCHANGED running
       ELSE IF frame[p].attempt < max_retries - 1
       THEN /\ Goto(p, "wel_sleep")
            /\ frame' = [frame EXCEPT
                             ![p].wake = now + retry_delay * (frame[p].attempt + 1)]
            /\ UNCHANGED running
       ELSE /\ Goto(p, "wel_top")
            /\ frame' = [frame EXCEPT ![p].attempt = @ + 1]
            /\ running' = p
    /\ UNCHANGED <<now, monVars, aiVars, cogVars, orphans, obsVars>>

\* `await asyncio.sleep(self.retry_delay * (attempt + 1))` is over
WelSleepDone(p) ==
    /\ pc[p] = "wel_sleep"
    /\ running = None
    /\ now >= frame[p].wake
    /\ Goto(p, "wel_top")
    /\ frame' = [frame EXCEPT ![p].attempt = @ + 1, ![p].wake = 0]
    /\ running' = p
    /\ UNCHANGED <<now, monVars, aiVars, cogVars, orphans, obsVars>>

\* every attempt raised: queue the message if there is room (fallback_enabled
\* is True), and return False
WelFallback(p) ==
    /\ pc[p] = "wel_fallback"
    /\ running = p
    /\ message_queue' =
           IF QueueHasRoom(message_queue)
           THEN Append(message_queue, [id |-> frame[p].calls, attempts |-> 0,
                                       sends |-> 0, ok |-> FALSE])
           ELSE message_queue
    /\ Goto(p, "idle")
    /\ frame' = [frame EXCEPT ![p].result = FALSE, ![p].delivered = FALSE]
    /\ running' = None
    /\ UNCHANGED <<now, monVars, aiVars, shVars, enabled, last_sent_at, taskNext,
                   orphans, obsVars>>

\* retry_failed_messages fires with a non-empty queue (with an empty one it
\* returns at once) and takes `self.message_queue[:10]`
SweepFire(p) ==
    /\ p = "sweep"
    /\ pc[p] = "idle"
    /\ running = None
    /\ message_queue # <<>>
    /\ Goto(p, "sweep_item")
    /\ frame' = [frame EXCEPT ![p] =
           [Frame0 EXCEPT !.slice =
               [k \in 1..(IF Len(message_queue) < SweepSlice
                          THEN Len(message_queue) ELSE SweepSlice) |->
                    message_queue[k].id]]]
    /\ running' = p
    /\ UNCHANGED <<now, monVars, aiVars, cogVars, orphans, obsVars>>

\* the next entry of the slice: count the attempt, then give it up or await
\* its send (`sends` counts the sends made for the entry)
SweepItem(p) ==
    /\ pc[p] = "sweep_item"
    /\ running = p
    /\ frame[p].slice # <<>>
    /\ LET id == Head(frame[p].slice)
           k == EntryPos(message_queue, id)
           a == message_queue[k].attempts + 1
       IN  IF GivesUp(a)
           THEN /\ message_queue' = [message_queue EXCEPT ![k].attempts = a]
                /\ frame' = [frame EXCEPT ![p].successful = @ \cup {id},
                                          ![p].slice = Tail(@)]
                /\ Goto(p, "sweep_item")
                /\ UNCHANGED running
           ELSE /\ message_queue' = [message_queue EXCEPT ![k].attempts = a,
                                                          ![k].sends = @ + 1]
                /\ Goto(p, "sweep_send_wait")
                /\ running' = None
                /\ UNCHANGED frame
    /\ UNCHANGED <<now, monVars, aiVars, shVars, enabled, last_sent_at, taskNext,
                   orphans, obsVars>>

\* the awaited re-send ends.  A returned value is not looked at: the entry
\* goes to `successful`.  An exception is logged and leaves it out.  `ok`
\* records that a re-send of the entry returned true.
SweepSendReturn(p, out) ==
    /\ pc[p] = "sweep_send_wait"
    /\ running = None
    /\ LET id == Head(frame[p].slice)
           k == EntryPos(message_queue, id)
       IN  IF out # "raise"
           THEN /\ message_queue' = [message_queue EXCEPT ![k].ok = (out = "true")]
                /\ frame' = [frame EXCEPT ![p].successful = @ \cup {id},
                                          ![p].slice = Tail(@)]
           ELSE /\ frame' = [frame EXCEPT ![p].slice = Tail(@)]
                /\ UNCHANGED message_queue
    /\ Goto(p, "sweep_item")
    /\ running' = p
    /\ UNCHANGED <<now, monVars, aiVars, shVars, enabled, last_sent_at, taskNext,
                   orphans, obsVars>>

\* `for item in successful: self.message_queue.remove(item)`
SweepEnd(p) ==
    /\ pc[p] = "sweep_item"
    /\ running = p
    /\ frame[p].slice = <<>>
    /\ message_queue' = SelectSeq(message_queue,
                                  LAMBDA e : e.id \notin frame[p].successful)
    /\ Goto(p, "idle")
    /\ UNCHANGED frame
    /\ running' = None
    /\ UNCHANGED <<now, monVars, aiVars, shVars, enabled, last_sent_at, taskNext,
                   orphans, obsVars>>

(***************************************************************************)
(* Specifications.                                                         *)
(***************************************************************************)
\* every step coroutine p can take inside one tick
TickStep(p, maxBatch) ==
    \/ PMEntry(p)
    \/ \E api \in ApiOutcomes : PMFetchEmpty(p, api)
    \/ \E token \in Tokens, batch \in BatchesUpTo(maxBatch) : PMFetchReturn(p, token, batch)
    \/ PMItems(p)
    \/ PMNotify(p)
    \/ PMGen(p)
    \/ PMAfterGen(p)
    \/ PMAfterSend(p)
    \/ PMIdle(p)
    \/ \E o \in SubOutcomes : SubEntry(p, o)
    \/ SubReturn(p)
    \/ GenEntry(p)
    \/ \E raw \in {<<>>, ReplyText} : GenHttpReturn(p, raw)
    \/ RytEntry(p)
    \/ RytAfterGen(p)
    \/ RytAfterSend(p)
    \/ RetryEntry(p)
    \/ RetryTop(p)
    \/ RetryAfterSend(p)
    \/ RetrySleepDone(p)

\* every step of send_chat_message run by coroutine p
SendStep(p) ==
    \/ SendEntry(p)
    \/ \E b \in BOOLEAN : SendReturn(p, b)
    \/ SendRaise(p)
    \/ SendCoolDone(p)

\* the control surface and the environment of one monitor
Control ==
    \/ \E chat \in Chats : StartMonitoring(chat)
    \/ StopMonitoring
    \/ CancelDeliver("loop")
    \/ \E b \in BOOLEAN : OrphanDone(b)
    \/ \E b \in BOOLEAN : SetEnabled(b)

\* The monitor driven by its own background loop.
Next ==
    \/ Tick(MaxTime)
    \/ Control
    \/ LoopIter("loop")
    \/ LoopAfterPM("loop")
    \/ TickStep("loop", MaxBatch)
    \/ PMAfterIdle("loop")
    \/ SendStep("loop")

Spec == Init /\ [][Next]_vars

\* The monitor driven by both callers of process_messages: its background
\* loop and YouTubeCommands.monitor_task.
DriversNext ==
    \/ Tick(NarrowTime)
    \/ Control
    \/ LoopIter("loop")
    \/ LoopAfterPM("loop")
    \/ TaskFire("task")
    \/ TaskAfterPM("task")
    \/ \E p \in {"loop", "task"} : TickStep(p, NarrowBatch)
    \/ \E p \in {"loop", "task"} : SendStep(p)

DriversSpec == NarrowInit /\ [][DriversNext]_vars

\* The monitor and the owner command `!rukiya say`, both senders.
SendersNext ==
    \/ Tick(NarrowTime)
    \/ Control
    \/ LoopIter("loop")
    \/ LoopAfterPM("loop")
    \/ TickStep("loop", NarrowBatch)
    \/ SayEntry("cmd")
    \/ SayAfterSend("cmd")
    \/ \E p \in {"loop", "cmd"} : SendStep(p)

SendersSpec == NarrowInit /\ [][SendersNext]_vars

(***************************************************************************)
(* The monitor with or without an idle filler pool and an API key, and     *)
(* with a subscriber that returns at once, followed long enough for two    *)
(* idle intervals and a send cooldown to pass.                             *)
(***************************************************************************)
IdleMaxTime == 2 * IdleInterval + SendCooldown

IdleInit ==
    /\ now = StartClock
    /\ InitObjects
    /\ idle_chat_messages \in {<<>>, IdleMessages}
    /\ subscribers = <<"shayari">>
    /\ openrouter_key \in BOOLEAN
    /\ config = MainConfig
    /\ running = None
    /\ pc = [p \in Procs |-> CASE p = "task" -> "task_wait"
                               [] p = "cmd" -> "cmd_idle"
                               [] OTHER -> "idle"]
    /\ stack = [p \in Procs |-> <<>>]
    /\ frame = [p \in Procs |-> Frame0]

IdleNext ==
    \/ Tick(IdleMaxTime)
    \/ \E chat \in Chats : StartMonitoring(chat)
    \/ StopMonitoring
    \/ CancelDeliver("loop")
    \/ \E b \in BOOLEAN : OrphanDone(b)
    \/ LoopIter("loop")
    \/ LoopAfterPM("loop")
    \/ PMEntry("loop")
    \/ \E api \in ApiOutcomes : PMFetchEmpty("loop", api)
    \/ \E token \in Tokens, batch \in BatchesUpTo(NarrowBatch) :
          PMFetchReturn("loop", token, batch)
    \/ PMItems("loop")
    \/ PMNotify("loop")
    \/ SubEntry("loop", "return")
    \/ PMGen("loop")
    \/ PMAfterGen("loop")
    \/ PMAfterSend("loop")
    \/ PMIdle("loop")
    \/ PMAfterIdle("loop")
    \/ GenEntry("loop")
    \/ \E raw \in {<<>>, ReplyText} : GenHttpReturn("loop", raw)
    \/ RetryEntry("loop")
    \/ RetryTop("loop")
    \/ RetryAfterSend("loop")
    \/ RetrySleepDone("loop")
    \/ SendStep("loop")

IdleSpec == IdleInit /\ [][IdleNext]_vars

(***************************************************************************)
(* Pages of several items, some of them malformed.  The monitor runs with  *)
(* an API key, no subscriber and no idle pool, driven by its own loop.     *)
(***************************************************************************)
BatchLen == NarrowBatch + 1

BatchPool == {[id |-> "m1", author |-> <<"x">>, text |-> <<"r">>],
              [id |-> "m2", author |-> <<"x">>, text |-> <<"R", "x">>],
              BadItem}

BatchesOf(pool, n) == UNION {[1..k -> pool] : k \in 0..n}

BatchInit ==
    /\ now = StartClock
    /\ InitObjects
    /\ idle_chat_messages = <<>>
    /\ subscribers = <<>>
    /\ openrouter_key = TRUE
    /\ config = MainConfig
    /\ running = None
    /\ pc = [p \in Procs |-> CASE p = "task" -> "task_wait"
                               [] p = "cmd" -> "cmd_idle"
                               [] OTHER -> "idle"]
    /\ stack = [p \in Procs |-> <<>>]
    /\ frame = [p \in Procs |-> Frame0]

BatchNext ==
    \/ Tick(MaxTime)
    \/ \E chat \in Chats : StartMonitoring(chat)
    \/ StopMonitoring
    \/ CancelDeliver("loop")
    \/ \E b \in BOOLEAN : OrphanDone(b)
    \/ LoopIter("loop")
    \/ LoopAfterPM("loop")
    \/ PMEntry("loop")
    \/ \E api \in ApiOutcomes : PMFetchEmpty("loop", api)
    \/ \E token \in Tokens, batch \in BatchesOf(BatchPool, BatchLen) :
          PMFetchReturn("loop", token, batch)
    \/ PMItems("loop")
    \/ PMItemRaise("loop")
    \/ PMNotify("loop")
    \/ PMGen("loop")
    \/ PMAfterGen("loop")
    \/ PMAfterSend("loop")
    \/ PMIdle("loop")
    \/ GenEntry("loop")
    \/ \E raw \in {<<>>, ReplyText} : GenHttpReturn("loop", raw)
    \/ GenHttpRaise("loop")
    \/ RetryEntry("loop")
    \/ RetryTop("loop")
    \/ RetryAfterSend("loop")
    \/ RetrySleepDone("loop")
    \/ SendStep("loop")

BatchSpec == BatchInit /\ [][BatchNext]_vars

(***************************************************************************)
(* Restarts.  The monitor is in a session that start_monitoring opened     *)
(* before the behaviour begins (`starts` counts the calls made in the      *)
(* behaviour), no API key is set, nothing is subscribed, and both callers  *)
(* of process_messages run.                                                *)
(***************************************************************************)
RestartInit ==
    /\ now = StartClock
    /\ is_running = TRUE
    /\ live_chat_id \in Chats
    /\ next_page_token = None
    /\ processed_messages = {}
    /\ last_activity_at = now
    /\ last_idle_message_at = 0
    /\ monitor_task = "active"
    /\ idle_chat_messages = <<>>
    /\ subscribers = <<>>
    /\ last_used = 0
    /\ openrouter_key = FALSE
    /\ config = MainConfig
    /\ enabled = FALSE
    /\ last_sent_at = 0
    /\ taskNext = now
    /\ message_queue = <<>>
    /\ ShayariInit
    /\ running = None
    /\ pc = [p \in Procs |-> CASE p = "loop" -> "loop_sleep"
                               [] p = "task" -> "task_wait"
                               [] p = "cmd" -> "cmd_idle"
                               [] OTHER -> "idle"]
    /\ stack = [p \in Procs |-> <<>>]
    /\ frame = [p \in Procs |->
                  IF p = "loop" THEN [Frame0 EXCEPT !.wake = now] ELSE Frame0]
    /\ orphans = 0
    /\ notifyCycles = [i \in Ids |-> 0]
    /\ gateEvals = [i \in Ids |-> 0]
    /\ replyGate = {}
    /\ lastRawOkAt = -1
    /\ earlySend = FALSE
    /\ fetches = 0
    /\ starts = 0

RestartNext ==
    \/ Tick(NarrowTime)
    \/ \E chat \in Chats : StartMonitoring(chat)
    \/ StopMonitoring
    \/ CancelDeliver("loop")
    \/ LoopIter("loop")
    \/ LoopAfterPM("loop")
    \/ TaskFire("task")
    \/ TaskAfterPM("task")
    \/ \E p \in {"loop", "task"} :
          \/ PMEntry(p)
          \/ \E api \in ApiOutcomes : PMFetchEmpty(p, api)
          \/ \E token \in Tokens, batch \in BatchesUpTo(NarrowBatch) :
                PMFetchReturn(p, token, batch)
          \/ PMItems(p)
          \/ PMNotify(p)
          \/ PMGen(p)
          \/ GenEntry(p)
          \/ PMAfterGen(p)
          \/ PMIdle(p)

RestartSpec == RestartInit /\ [][RestartNext]_vars

\* The same under the scheduling of the event loop: a coroutine that owns the
\* loop runs on to its next await, and the CancelledError of a cancelled task
\* is delivered.
RestartLiveSpec ==
    /\ RestartInit
    /\ [][RestartNext]_vars
    /\ WF_vars(running # None /\ RestartNext)
    /\ WF_vars(CancelDeliver("loop"))

(***************************************************************************)
(* Changing the channel.  The monitor is in a session on chat "A" with an  *)
(* API key and one subscriber; the owner stops it and starts it again,     *)
(* possibly on another chat, while both callers of process_messages run.   *)
(***************************************************************************)
BothChats == {"A", "B"}

\* YouTubeCommands.start_monitoring: the command refuses while the monitor
\* runs, and calls ChatMonitor.start_monitoring without an await in between
StartCommand(chat) ==
    /\ ~is_running
    /\ StartMonitoring(chat)

ChannelInit ==
    /\ now = StartClock
    /\ is_running = TRUE
    /\ live_chat_id = "A"
    /\ next_page_token = None
    /\ processed_messages = {}
    /\ last_activity_at = now
    /\ last_idle_message_at = 0
    /\ monitor_task = "active"
    /\ idle_chat_messages = <<>>
    /\ subscribers = <<"shayari">>
    /\ last_used = 0
    /\ openrouter_key = TRUE
    /\ config = MainConfig
    /\ enabled = FALSE
    /\ last_sent_at = 0
    /\ taskNext = now
    /\ message_queue = <<>>
    /\ ShayariInit
    /\ running = None
    /\ pc = [p \in Procs |-> CASE p = "loop" -> "loop_sleep"
                               [] p = "task" -> "task_wait"
                               [] p = "cmd" -> "cmd_idle"
                               [] OTHER -> "idle"]
    /\ stack = [p \in Procs |-> <<>>]
    /\ frame = [p \in Procs |->
                  IF p = "loop" THEN [Frame0 EXCEPT !.wake = now] ELSE Frame0]
    /\ orphans = 0
    /\ notifyCycles = [i \in Ids |-> 0]
    /\ gateEvals = [i \in Ids |-> 0]
    /\ replyGate = {}
    /\ lastRawOkAt = -1
    /\ earlySend = FALSE
    /\ fetches = 0
    /\ starts = 0

ChannelNext ==
    \/ Tick(NarrowTime)
    \/ \E chat \in BothChats : StartCommand(chat)
    \/ StopMonitoring
    \/ CancelDeliver("loop")
    \/ \E b \in BOOLEAN : OrphanDone(b)
    \/ LoopIter("loop")
    \/ LoopAfterPM("loop")
    \/ TaskFire("task")
    \/ TaskAfterPM("task")
    \/ \E p \in {"loop", "task"} :
          \/ PMEntry(p)
          \/ \E api \in ApiOutcomes : PMFetchEmpty(p, api)
          \/ \E token \in Tokens, batch \in BatchesUpTo(NarrowBatch) :
                PMFetchReturn(p, token, batch)
          \/ PMItems(p)
          \/ PMNotify(p)
          \/ SubEntry(p, "return")
          \/ PMGen(p)
          \/ GenEntry(p)
          \/ \E raw \in {<<>>, ReplyText} : GenHttpReturn(p, raw)
          \/ PMAfterGen(p)
          \/ PMAfterSend(p)
          \/ PMIdle(p)
          \/ RetryEntry(p)
          \/ RetryTop(p)
          \/ RetryAfterSend(p)
          \/ RetrySleepDone(p)
          \/ SendStep(p)

ChannelSpec == ChannelInit /\ [][ChannelNext]_vars

(***************************************************************************)
(* The two reply paths.  The monitor is in a session with RukiyaCog        *)
(* subscribed and enabled; both the cog and the monitor's own step ask the *)
(* shared AIService for a reply to the message of the tick.  Config's      *)
(* ai_cooldown is the shipped kind of value or 0.                          *)
(***************************************************************************)
ReplyCooldowns == {0, MainCooldown}

ReplyInit ==
    /\ now = StartClock
    /\ is_running = TRUE
    /\ live_chat_id = "A"
    /\ next_page_token = None
    /\ processed_messages = {}
    /\ last_activity_at = now
    /\ last_idle_message_at = 0
    /\ monitor_task = "active"
    /\ idle_chat_messages = <<>>
    /\ subscribers = <<"rukiya">>
    /\ last_used = 0
    /\ openrouter_key = TRUE
    /\ \E c \in ReplyCooldowns : config = [MainConfig EXCEPT !.ai_cooldown = c]
    /\ enabled = TRUE
    /\ last_sent_at = 0
    /\ taskNext = now
    /\ message_queue = <<>>
    /\ ShayariInit
    /\ running = None
    /\ pc = [p \in Procs |-> CASE p = "loop" -> "loop_sleep"
                               [] p = "task" -> "task_wait"
                               [] p = "cmd" -> "cmd_idle"
                               [] OTHER -> "idle"]
    /\ stack = [p \in Procs |-> <<>>]
    /\ frame = [p \in Procs |->
                  IF p = "loop" THEN [Frame0 EXCEPT !.wake = now] ELSE Frame0]
    /\ orphans = 0
    /\ notifyCycles = [i \in Ids |-> 0]
    /\ gateEvals = [i \in Ids |-> 0]
    /\ replyGate = {}
    /\ lastRawOkAt = -1
    /\ earlySend = FALSE
    /\ fetches = 0
    /\ starts = 0

ReplyNext ==
    \/ Tick(MaxTime)
    \/ \E b \in BOOLEAN : SetEnabled(b)
    \/ LoopIter("loop")
    \/ LoopAfterPM("loop")
    \/ PMEntry("loop")
    \/ \E api \in ApiOutcomes : PMFetchEmpty("loop", api)
    \/ \E token \in Tokens, batch \in BatchesUpTo(MaxBatch) :
          PMFetchReturn("loop", token, batch)
    \/ PMItems("loop")
    \/ PMNotify("loop")
    \/ RytEntry("loop")
    \/ RytAfterGen("loop")
    \/ RytAfterSend("loop")
    \/ PMGen("loop")
    \/ GenEntry("loop")
    \/ \E raw \in {<<>>, ReplyText} : GenHttpReturn("loop", raw)
    \/ PMAfterGen("loop")
    \/ PMAfterSend("loop")
    \/ PMIdle("loop")
    \/ RetryEntry("loop")
    \/ RetryTop("loop")
    \/ RetryAfterSend("loop")
    \/ RetrySleepDone("loop")
    \/ SendStep("loop")

ReplySpec == ReplyInit /\ [][ReplyNext]_vars

(***************************************************************************)
(* Pages with items that lack an id or a text.  The monitor is in the      *)
(* session of ChannelInit, driven by its own loop, and every page holds    *)
(* BatchLen items.                                                         *)
(***************************************************************************)
SkipPool == {[id |-> "m1", author |-> <<"x">>, text |-> <<"r">>],
             [id |-> None, author |-> <<"x">>, text |-> <<"r">>],
             [id |-> "m2", author |-> <<"x">>, text |-> <<>>]}

SkipPages == [1..BatchLen -> SkipPool]

SkipNext ==
    \/ Tick(MaxTime)
    \/ LoopIter("loop")
    \/ LoopAfterPM("loop")
    \/ PMEntry("loop")
    \/ \E api \in ApiOutcomes : PMFetchEmpty("loop", api)
    \/ \E token \in Tokens, batch \in SkipPages : PMFetchReturn("loop", token, batch)
    \/ PMItems("loop")
    \/ PMNotify("loop")
    \/ SubEntry("loop", "return")
    \/ PMGen("loop")
    \/ GenEntry("loop")
    \/ \E raw \in {<<>>, ReplyText} : GenHttpReturn("loop", raw)
    \/ PMAfterGen("loop")
    \/ PMAfterSend("loop")
    \/ PMIdle("loop")
    \/ RetryEntry("loop")
    \/ RetryTop("loop")
    \/ RetryAfterSend("loop")
    \/ RetrySleepDone("loop")
    \/ SendStep("loop")

SkipSpec == ChannelInit /\ [][SkipNext]_vars

(***************************************************************************)
(* The subscriber registry changing under a notification cycle.  The       *)
(* monitor is in the session of ChannelInit, driven by its own loop;       *)
(* callbacks return, suspend or raise, and callbacks are registered and    *)
(* removed at any point where the code can run such a call.                *)
(***************************************************************************)
SubsNext ==
    \/ Tick(NarrowTime)
    \/ \E s \in SubNames : Subscribe(s)
    \/ \E s \in SubNames : Unsubscribe(s)
    \/ LoopIter("loop")
    \/ LoopAfterPM("loop")
    \/ PMEntry("loop")
    \/ \E api \in ApiOutcomes : PMFetchEmpty("loop", api)
    \/ \E token \in Tokens, batch \in BatchesUpTo(NarrowBatch) :
          PMFetchReturn("loop", token, batch)
    \/ PMItems("loop")
    \/ PMNotify("loop")
    \/ \E o \in SubOutcomes : SubEntry("loop", o)
    \/ SubReturn("loop")
    \/ PMGen("loop")
    \/ GenEntry("loop")
    \/ \E raw \in {<<>>, ReplyText} : GenHttpReturn("loop", raw)
    \/ PMAfterGen("loop")
    \/ PMAfterSend("loop")
    \/ PMIdle("loop")
    \/ RetryEntry("loop")
    \/ RetryTop("loop")
    \/ RetryAfterSend("loop")
    \/ RetrySleepDone("loop")
    \/ SendStep("loop")

SubsSpec == ChannelInit /\ [][SubsNext]_vars

(***************************************************************************)
(* The circuit breaker of the Shayari cog: _is_ai_available,               *)
(* _generate_ai_shayari and _handle_ai_failure, reached by on_chat_message *)
(* (coroutine "loop") and by the command test_shayari (coroutine "cmd").   *)
(***************************************************************************)
AiBreakerCooldown == 2    \* timedelta(minutes=5), in clock ticks

\* how the awaited Gemini call of _generate_ai_shayari ends: a text of valid
\* length, asyncio.TimeoutError, an empty response, a text of invalid
\* length, or another exception
GenOutcomes == {"text", "timeout", "empty", "bad_length", "error"}

\* the window of the last max_ai_failures events of the breaker
Observe(h, e) ==
    LET s == Append(h, e) IN IF Len(s) > max_ai_failures THEN Tail(s) ELSE s

\* the return value of _is_ai_available
AiAvailable ==
    /\ gemini_model
    /\ ai_cooldown_until = NoDeadline \/ now >= ai_cooldown_until

\* a success that leaves the count alone
CountKept(count) == count

\* `self.ai_failure_count = 0` after a generated shayari
CountAfterSuccess(count) == 0

\* `if self._is_ai_available(): shayari = await self._generate_ai_shayari()`
\* up to the first suspension: the check, with the reset it makes when the
\* cooldown is over, and then either the cached shayari (`hit`: the cache is
\* not empty and random.random() < 0.2) or the start of the Gemini call
ShCheck(p, hit) ==
    /\ pc[p] = "sh_idle"
    /\ running = None
    /\ IF AiAvailable
       THEN /\ ai_cooldown_until' = NoDeadline
            /\ ai_failure_count' = IF ai_cooldown_until # NoDeadline THEN 0
                                   ELSE ai_failure_count
            /\ gens' = IF ai_cooldown_until # NoDeadline
                       THEN Observe(gens, "reenabled") ELSE gens
            /\ IF ai_cache /\ hit
               THEN /\ Goto(p, "sh_send")
                    /\ frame' = [frame EXCEPT ![p].resp = "cached"]
               ELSE /\ Goto(p, "sh_gen_wait")
                    /\ frame' = [frame EXCEPT ![p].resp = "available"]
       ELSE /\ Goto(p, "sh_send")
            /\ frame' = [frame EXCEPT ![p].resp = "unavailable"]
            /\ UNCHANGED <<ai_cooldown_until, ai_failure_count, gens>>
    /\ UNCHANGED <<now, monVars, aiVars, enabled, last_sent_at, taskNext,
                   message_queue, ai_cache, gemini_model, running, orphans,
                   obsVars>>

\* the Gemini call ended with `out`: the rest of _generate_ai_shayari, with
\* _handle_ai_failure in both except clauses
ShGenReturn(p, out) ==
    /\ pc[p] = "sh_gen_wait"
    /\ running = None
    /\ IF out = "text"
       THEN /\ ai_cache' = TRUE
            /\ ai_failure_count' = CountAfterSuccess(ai_failure_count)
            /\ gens' = Observe(gens, "ok")
            /\ frame' = [frame EXCEPT ![p].resp = "generated"]
            /\ UNCHANGED ai_cooldown_until
       ELSE /\ ai_failure_count' = ai_failure_count + 1
            /\ ai_cooldown_until' =
                   IF ai_failure_count + 1 >= max_ai_failures
                   THEN now + AiBreakerCooldown ELSE ai_cooldown_until
            /\ gens' = Observe(gens, "fail")
            /\ frame' = [frame EXCEPT ![p].resp = "failed"]
            /\ UNCHANGED ai_cache
    /\ Goto(p, "sh_send")
    /\ UNCHANGED <<now, monVars, aiVars, enabled, last_sent_at, taskNext,
                   message_queue, gemini_model, running, orphans, obsVars>>

\* the shayari, generated, cached or fallback, is sent and the caller returns
ShDone(p) ==
    /\ pc[p] = "sh_send"
    /\ running = None
    /\ Goto(p, "sh_idle")
    /\ frame' = [frame EXCEPT ![p] = Frame0]
    /\ UNCHANGED <<now, monVars, aiVars, cogVars, running, orphans, obsVars>>

\* the cog after construction, with or without a Gemini model
ShInit ==
    /\ now = StartClock
    /\ is_running = FALSE
    /\ live_chat_id = None
    /\ next_page_token = None
    /\ processed_messages = {}
    /\ last_activity_at = now
    /\ last_idle_message_at = 0
    /\ monitor_task = "none"
    /\ idle_chat_messages = <<>>
    /\ subscribers = <<"shayari">>
    /\ last_used = 0
    /\ openrouter_key = TRUE
    /\ config = MainConfig
    /\ enabled = FALSE
    /\ last_sent_at = 0
    /\ taskNext = now
    /\ message_queue = <<>>
    /\ gemini_model \in BOOLEAN
    /\ BreakerInit
    /\ orphans = 0
    /\ notifyCycles = [i \in Ids |-> 0]
    /\ gateEvals = [i \in Ids |-> 0]
    /\ replyGate = {}
    /\ lastRawOkAt = -1
    /\ earlySend = FALSE
    /\ fetches = 0
    /\ starts = 0
    /\ running = None
    /\ pc = [p \in Procs |-> CASE p \in {"loop", "cmd"} -> "sh_idle"
                               [] p = "task" -> "task_wait"
                               [] OTHER -> "idle"]
    /\ stack = [p \in Procs |-> <<>>]
    /\ frame = [p \in Procs |-> Frame0]

ShNext ==
    \/ Tick(ShayariTime)
    \/ \E p \in {"loop", "cmd"} :
          \/ \E hit \in BOOLEAN : ShCheck(p, hit)
          \/ \E out \in GenOutcomes : ShGenReturn(p, out)
          \/ ShDone(p)

ShSpec == ShInit /\ [][ShNext]_vars

(***************************************************************************)
(* One call of AIService._call_openrouter, with or without an API key.     *)
(***************************************************************************)
OrInit ==
    /\ now = StartClock
    /\ InitObjects
    /\ idle_chat_messages = <<>>
    /\ subscribers = <<>>
    /\ openrouter_key \in BOOLEAN
    /\ config = MainConfig
    /\ running = "ai"
    /\ pc = [p \in Procs |-> CASE p = "ai" -> "or_entry"
                               [] p = "task" -> "task_wait"
                               [] p = "cmd" -> "cmd_idle"
                               [] OTHER -> "idle"]
    /\ stack = [p \in Procs |-> <<>>]
    /\ frame = [p \in Procs |-> Frame0]

OrNext ==
    \/ OrTick
    \/ OrEntry("ai")
    \/ \E out \in HttpOutcomes : OrPostReturn("ai", out)
    \/ OrSleepDone("ai")

\* the same under the scheduling of the event loop: every post ends (the
\* client has a timeout of 30 s), time passes, and a sleep that is over
\* returns
OrLiveSpec ==
    /\ OrInit
    /\ [][OrNext]_vars
    /\ WF_vars(OrEntry("ai"))
    /\ WF_vars(\E out \in HttpOutcomes : OrPostReturn("ai", out))
    /\ WF_vars(OrTick)
    /\ WF_vars(OrSleepDone("ai"))

(***************************************************************************)
(* The Welcome cog of the constructed bot: callers of                      *)
(* send_message_with_retry and the sweep, interleaved at their awaits.     *)
(* The sweep may fire at any time the event loop is free; its period plays *)
(* no part in what it does.                                                *)
(***************************************************************************)
WelcomeNext ==
    \/ Tick(WelcomeTime)
    \/ WelEntry("wel")
    \/ WelTop("wel")
    \/ \E out \in SendOutcomes : WelSendReturn("wel", out)
    \/ WelSleepDone("wel")
    \/ WelFallback("wel")
    \/ SweepFire("sweep")
    \/ SweepItem("sweep")
    \/ \E out \in SendOutcomes : SweepSendReturn("sweep", out)
    \/ SweepEnd("sweep")

WelcomeSpec == BatchInit /\ [][WelcomeNext]_vars

\* the same under the scheduling of the event loop: a coroutine that owns
\* the loop runs on to its next await, the sweep keeps firing, and the send
\* it awaits ends
WelcomeLiveSpec ==
    /\ BatchInit
    /\ [][WelcomeNext]_vars
    /\ WF_vars(running # None /\ WelcomeNext)
    /\ WF_vars(SweepFire("sweep"))
    /\ WF_vars(\E out \in SendOutcomes : SweepSendReturn("sweep", out))

(***************************************************************************)
(* The gate-and-reply step of a tick on an arbitrary message: the tick has *)
(* marked the message seen and notified the subscribers, and is about to   *)
(* call generate_response.  Message, configuration, API key and the time   *)
(* of the last reply are drawn from bounded sets.                          *)
(***************************************************************************)
GateAuthors == {<<"r">>, <<"R">>, <<"x">>}
GateBotUsers == {{}, {<<"r">>}, {<<"R">>}}
GateBanned == {{}, {<<"s">>}, {<<"S">>}, {<<"s", "x">>}}
GateTriggers == {{}, {<<"r">>}, {<<"R">>}, {<<"r">>, <<"x", "x">>}}
GateLastUsed == {0} \cup {StartClock - d : d \in 0..(MaxCooldown + 1)}

GateInit ==
    /\ now = StartClock
    /\ is_running = TRUE
    /\ live_chat_id = "A"
    /\ next_page_token = "c1"
    /\ processed_messages = {"m1"}
    /\ subscribers = <<>>
    /\ last_activity_at = now
    /\ last_idle_message_at = 0
    /\ monitor_task = "active"
    /\ idle_chat_messages = <<>>
    /\ last_used \in GateLastUsed
    /\ openrouter_key \in BOOLEAN
    /\ \E c \in 0..MaxCooldown, u \in GateBotUsers, b \in GateBanned,
          t \in GateTriggers :
          config = [ai_cooldown |-> c, bot_users |-> u, banned_words |-> b,
                    ai_triggers |-> t]
    /\ enabled = FALSE
    /\ last_sent_at = 0
    /\ taskNext = now
    /\ message_queue = <<>>
    /\ ShayariInit
    /\ running = "loop"
    /\ pc = [p \in Procs |-> IF p = "loop" THEN "pm_gen" ELSE "idle"]
    /\ stack = [p \in Procs |-> IF p = "loop" THEN <<"loop_after_pm">> ELSE <<>>]
    /\ \E a \in GateAuthors, x \in StringsUpTo(MaxStrLen) :
          frame = [p \in Procs |->
                     IF p = "loop"
                     THEN [Frame0 EXCEPT !.msg = [id |-> "m1", author |-> a,
                                                  text |-> x]]
                     ELSE Frame0]
    /\ orphans = 0
    /\ notifyCycles = [i \in Ids |-> IF i = "m1" THEN 1 ELSE 0]
    /\ gateEvals = [i \in Ids |-> 0]
    /\ replyGate = {}
    /\ lastRawOkAt = -1
    /\ earlySend = FALSE
    /\ fetches = 1
    /\ starts = 1

GateNext ==
    \/ PMGen("loop")
    \/ GenEntry("loop")
    \/ \E raw \in {<<>>, ReplyText} : GenHttpReturn("loop", raw)
    \/ PMAfterGen("loop")

GateSpec == GateInit /\ [][GateNext]_vars

(***************************************************************************)
(* send_chat_message_with_retry called with an arbitrary text and retries, *)
(* while monitoring runs or not; monitoring may stop during the attempts.  *)
(***************************************************************************)
RetryMaxTime == 2 * MaxRetries + 1

RetryInit ==
    /\ now = StartClock
    /\ \/ is_running = FALSE /\ live_chat_id = None
       \/ is_running = TRUE /\ live_chat_id \in Chats
    /\ InitRest
    /\ idle_chat_messages = <<>>
    /\ subscribers = <<>>
    /\ openrouter_key = TRUE
    /\ config = MainConfig
    /\ running = "rt"
    /\ pc = [p \in Procs |-> IF p = "rt" THEN "retry_entry" ELSE "idle"]
    /\ stack = [p \in Procs |-> IF p = "rt" THEN <<"caller_done">> ELSE <<>>]
    /\ \E x \in {<<>>, SayText}, r \in (0 - 1)..MaxRetries :
          frame = [p \in Procs |->
                     IF p = "rt" THEN [Frame0 EXCEPT !.text = x, !.retries = r]
                     ELSE Frame0]

RetryNext ==
    \/ Tick(RetryMaxTime)
    \/ StopMonitoring
    \/ RetryEntry("rt")
    \/ RetryTop("rt")
    \/ RetryAfterSend("rt")
    \/ RetrySleepDone("rt")
    \/ SendStep("rt")

RetrySpec == RetryInit /\ [][RetryNext]_vars

(***************************************************************************)
(* Properties.                                                             *)
(***************************************************************************)
Abs(x) == IF x < 0 THEN 0 - x ELSE x

\* C1: within one session every message id triggers at most one subscriber
\* notification cycle and at most one gate evaluation.
C1_OncePerSession ==
    \A i \in Ids : notifyCycles[i] <= 1 /\ gateEvals[i] <= 1

\* The half of C1 the dedup set does enforce: at most one notification cycle
\* per id and session.
NotifiedOncePerSession == \A i \in Ids : notifyCycles[i] <= 1

\* a tick of driver p is in flight: process_messages has been entered and
\* has not returned to the driver
TickInFlight(p) == stack[p] # <<>>

\* C2: at most one tick (one execution of process_messages) is in flight at
\* any time, whichever driver started it.
C2_OneTickInFlight ==
    Cardinality({p \in {"loop", "task"} : TickInFlight(p)}) <= 1

\* C3: two different messages whose gate evaluations lie less than the
\* cooldown apart never both lead to a reply send attempt.
C3_CooldownRespected ==
    \A a, b \in replyGate :
        a[1] # b[1] => Abs(a[2] - b[2]) >= config.ai_cooldown

\* a sendRaw issued for an automated reply returns success in this step
ReplySendSucceeds ==
    \E p \in Procs :
        /\ pc[p] = "send_wait"
        /\ pc'[p] = "send_cool"
        /\ frame'[p].result
        /\ \E k \in 1..Len(stack[p]) :
              stack[p][k] \in {"pm_after_send", "ryt_after_send"}

\* C4: last_used changes only as the result of a successful outbound send of
\* an automated reply.
C4_OnlyOnSuccessfulSend ==
    [][last_used' # last_used => ReplySendSucceeds]_vars

\* the responder hands a non-empty reply back to generate_response in this step
ReplyProduced ==
    \E p \in Procs :
        /\ pc[p] = "gen_http_wait"
        /\ pc'[p] # "gen_http_wait"
        /\ frame'[p].reply # <<>>

\* C4 (amended): last_used changes only in the step in which the responder
\* returns a non-empty reply for a message the gate permitted, before any
\* send is attempted; no send outcome changes it.
C4_OnlyOnReply ==
    [][last_used' # last_used => ReplyProduced]_vars

\* C4 witness: a reply was produced, both attempts to send it failed, and
\* last_used has moved
C4_Witness ==
    /\ pc["loop"] = "pm_after_send"
    /\ ~frame["loop"].ok
    /\ frame["loop"].calls = 2
    /\ last_used # 0
    /\ last_used >= frame["loop"].gateAt

\* C5: no two sendRaw calls are in flight together, and none begins within
\* the send cooldown after a successful one.
C5_SendsSerialized == RawInFlight <= 1 /\ ~earlySend

\* The message at the gate in the gate specification, and what the claims
\* say about it, stated on the message and the configuration alone.
GMsg == frame["loop"].msg
AuthorIsMuted == \E u \in config.bot_users : Lower(GMsg.author) = Lower(u)
TextHasBanned == \E w \in config.banned_words : Contains(w, Lower(GMsg.text))
TextHasTrigger == \E t \in config.ai_triggers : Contains(t, Lower(GMsg.text))
ResponderCalled == pc["loop"] = "gen_http_wait" \/ frame["loop"].gateAt # 0
ReplySendBegun == pc["loop"] = "retry_entry"
GateDenied == pc["loop"] = "pm_after_gen" /\ frame["loop"].gateAt = 0
ElapsedSinceReply == now - last_used

\* C6: a message whose author equals a muted author, ignoring case, never
\* reaches the responder call and never produces a reply send.
C6_MutedNeverAnswered ==
    AuthorIsMuted => ~ResponderCalled /\ ~ReplySendBegun
                     /\ frame["loop"].reply = <<>>

\* C6 witness: the gate has denied a trigger message of an author muted under
\* another spelling, with key set and cooldown over
C6_Witness ==
    /\ GateDenied
    /\ AuthorIsMuted /\ GMsg.author \notin config.bot_users
    /\ TextHasTrigger /\ ~TextHasBanned
    /\ openrouter_key /\ ElapsedSinceReply > config.ai_cooldown

\* C7: a message whose case-folded text contains a banned term and a trigger
\* term is denied by the gate.
C7_BannedBeatsTrigger ==
    TextHasBanned /\ TextHasTrigger => ~ResponderCalled /\ ~ReplySendBegun

\* C7 witness: the gate has denied such a message although key, cooldown and
\* author would let it through
C7_Witness ==
    /\ GateDenied
    /\ TextHasBanned /\ TextHasTrigger
    /\ ~AuthorIsMuted
    /\ openrouter_key /\ ElapsedSinceReply > config.ai_cooldown

\* the gate's first four checks let the message through
PassedChecks1to4 ==
    /\ openrouter_key
    /\ ElapsedSinceReply > config.ai_cooldown
    /\ ~AuthorIsMuted
    /\ ~TextHasBanned

\* C8: a message that passed checks 1-4 is permitted exactly if its
\* case-folded text contains a trigger term; without one no reply is sent.
C8_TriggerDecides ==
    /\ pc["loop"] = "gen_http_wait" => TextHasTrigger
    /\ GateDenied /\ PassedChecks1to4 => ~TextHasTrigger
    /\ ReplySendBegun \/ frame["loop"].reply # <<>> => TextHasTrigger

\* C8 witness: a reply send begins for a text that holds a trigger term only
\* after case folding
C8_Witness ==
    /\ ReplySendBegun
    /\ \E t \in config.ai_triggers :
          Contains(t, Lower(GMsg.text)) /\ ~Contains(t, GMsg.text)

\* C9: the gate denies for cooldown exactly when now - last_used is less than
\* the cooldown; at an elapsed time equal to the cooldown it does not.
C9_CooldownBoundary ==
    /\ pc["loop"] = "gen_http_wait" =>
          ~(ElapsedSinceReply < config.ai_cooldown)
    /\ (GateDenied /\ openrouter_key /\ ~AuthorIsMuted /\ ~TextHasBanned
        /\ TextHasTrigger) => ElapsedSinceReply < config.ai_cooldown

\* the attempt budget the retry claim names
AttemptBudget == 1 + (IF frame["rt"].retries > 0 THEN frame["rt"].retries ELSE 0)

\* C10: send_chat_message_with_retry calls send until the first success or
\* until 1 + max(0, retries) attempts have failed, makes no attempt after a
\* success, and returns true exactly if an attempt succeeded.
C10_RetryBudget ==
    /\ frame["rt"].calls <= AttemptBudget
    /\ frame["rt"].okAt # 0 => frame["rt"].okAt = frame["rt"].calls
    /\ pc["rt"] = "caller_done" =>
          /\ frame["rt"].ok <=> frame["rt"].okAt # 0
          /\ ~frame["rt"].ok => frame["rt"].calls = AttemptBudget

\* C10 witness: with retries = 2 and a chat attached at the end, three
\* attempts were made, none succeeded, and the call returned false
C10_Witness ==
    /\ pc["rt"] = "caller_done"
    /\ frame["rt"].retries = 2
    /\ frame["rt"].calls = 3
    /\ ~frame["rt"].ok
    /\ live_chat_id # None

\* a call of send_chat_message by the retry caller returns in this step
\* without having handed anything to a worker thread
SendReturnsAtOnce ==
    /\ pc["rt"] = "send_entry"
    /\ pc'["rt"] = "retry_after_send"

\* C11: send_chat_message called with empty text, or while no chat is
\* attached, returns false without invoking sendRaw and without changing
\* _last_activity_at.
C11_RejectedSend ==
    [][(pc["rt"] = "send_entry" /\ pc'["rt"] # "send_entry"
        /\ (frame["rt"].text = <<>> \/ live_chat_id = None))
       => /\ SendReturnsAtOnce
          /\ ~frame'["rt"].ok
          /\ RawInFlight' = RawInFlight
          /\ last_activity_at' = last_activity_at
          /\ lastRawOkAt' = lastRawOkAt]_vars

\* C11 witness: a non-empty text was given to send_chat_message while no chat
\* was attached, and the call is back with false and no sendRaw under way
C11_Witness ==
    /\ pc["rt"] = "retry_after_send"
    /\ frame["rt"].text # <<>>
    /\ live_chat_id = None
    /\ frame["rt"].calls = 1
    /\ ~frame["rt"].ok
    /\ RawInFlight = 0

\* C12: when a subscriber raises, every other registered subscriber is still
\* invoked for the message, the gate is still evaluated for it, and the
\* exception does not end the tick: the tick is never back in its driver with
\* the message it was working on cut short by a raise.
C12_SubscriberIsolation ==
    /\ pc["loop"] = "pm_gen" => frame["loop"].invoked = subscribers
    /\ pc["loop"] = "pm_after_gen" => frame["loop"].gated
    /\ frame["loop"].subRaised /\ frame["loop"].msg.id # None =>
          pc["loop"] \notin {"loop_after_pm", "loop_sleep", "idle"}

\* C12 witness: the first subscriber raised, the second was invoked after it
\* and only the monitor's own call evaluated the gate
C12_Witness ==
    /\ pc["loop"] = "pm_after_gen"
    /\ frame["loop"].subRaised
    /\ frame["loop"].invoked = <<"shayari", "rukiya">>
    /\ ~enabled
    /\ frame["loop"].gated

\* C15: every tick that issued its fetch while Running evaluates the idle
\* filler check before it ends, an empty or null fetch result included.
C15_IdleCheckedEveryTick ==
    pc["loop"] = "loop_after_pm" /\ frame["loop"].fetched
        => frame["loop"].idleChecked

\* C20: a tick whose fetch failed because the remote chat no longer exists
\* ends with the monitor stopped.
C20_StopsWhenChatGone ==
    pc["loop"] = "loop_after_pm" /\ frame["loop"].fetchErr = "error_gone"
        => ~is_running

\* the idle filler hands a text to send_chat_message in this step
IdleSendBegins == pc["loop"] = "pm_idle" /\ pc'["loop"] = "send_entry"

\* C13: a filler send is attempted only when the feature is enabled, the pool
\* is non-empty and the session is running with a chat attached, never while
\* now - _last_activity_at is below the idle interval, and never within one
\* idle interval of the last filler that was sent.
C13_IdleGating ==
    [][IdleSendBegins =>
          /\ IdleEnabled /\ idle_chat_messages # <<>>
          /\ is_running /\ live_chat_id # None
          /\ now - last_activity_at >= IdleInterval
          /\ (last_idle_message_at # 0 =>
                now - last_idle_message_at >= IdleInterval)]_vars

\* C13 witness: a tick whose idle check ran one idle interval after the last
\* activity, but less than one after the last filler, ended without a send
C13_Witness ==
    /\ pc["loop"] = "loop_after_pm"
    /\ frame["loop"].idleChecked
    /\ is_running
    /\ last_idle_message_at # 0
    /\ now - last_activity_at >= IdleInterval
    /\ now - last_idle_message_at < IdleInterval

\* the filler's send_chat_message is back with success: its one sendRaw
\* returned true
IdleSendSucceeded ==
    /\ pc["loop"] = "pm_after_idle"
    /\ frame["loop"].okAt # 0
    /\ frame["loop"].okAt = frame["loop"].calls

\* C14: _last_idle_message_at is set only when an idle filler send returned
\* success; a failed filler send and every other send leave it unchanged
\* (start_monitoring puts it back to zero).
C14_IdleStampOnlyOnSuccess ==
    [][last_idle_message_at' # last_idle_message_at =>
          \/ IdleSendSucceeded /\ last_idle_message_at' = now
          \/ starts' = starts + 1 /\ last_idle_message_at' = 0]_vars

\* C14 witness: a filler send came back with false and the stamp of the
\* earlier successful filler is still in place
C14_Witness ==
    /\ pc["loop"] = "loop_after_pm"
    /\ frame["loop"].idleChecked
    /\ frame["loop"].calls = 1
    /\ ~frame["loop"].ok
    /\ last_idle_message_at # 0
    /\ last_idle_message_at < now

\* C16: the cursor of a running session is only ever set from a fetch that
\* was issued in that session, never from one issued before the latest
\* start.
C16_CursorOfThisSession ==
    [][(next_page_token' # next_page_token /\ next_page_token' # None
        /\ is_running)
       => \E p \in {"loop", "task"} :
             /\ pc[p] = "pm_fetch_wait"
             /\ pc'[p] # "pm_fetch_wait"
             /\ frame[p].fetchStarts = starts]_vars

\* C17: start_monitoring from any state leaves the monitor Running on a chat
\* with cursor and seen set empty, the activity time at now and the filler
\* time at zero, and does not touch the subscribers.
C17_StartResets ==
    [][starts' = starts + 1 =>
          /\ is_running' /\ live_chat_id' \in Chats
          /\ next_page_token' = None
          /\ processed_messages' = {}
          /\ last_activity_at' = now
          /\ last_idle_message_at' = 0
          /\ subscribers' = subscribers]_vars

\* C17 witness: the monitor is Running again on a fresh session after a stop
\* whose cancelled task has not finished, and ticks had fetched before
C17_Witness ==
    /\ starts = 1
    /\ is_running /\ live_chat_id # None
    /\ monitor_task = "cancelled"
    /\ fetches >= 1
    /\ next_page_token = None
    /\ processed_messages = {}
    /\ last_activity_at = now

\* C18: in every Stopped state the chat, the cursor and the seen set are
\* clear, so that a stop_monitoring() called there changes nothing.
C18_StoppedIsClean ==
    ~is_running =>
        /\ live_chat_id = None
        /\ next_page_token = None
        /\ processed_messages = {}

\* C19: while the monitor is Running its tick task is live and not cancelled.
C19_RunningHasTask == is_running => monitor_task = "active"

\* C21: an ordinary exception raised inside a tick ends that tick in its
\* handler and nothing else: is_running, the chat and the tick task are as
\* before and the tick is back in its driver; the driver then sleeps the poll
\* interval; and a cancelled tick task takes no step but its termination.
C21_TickExceptionCaught ==
    [][/\ (frame["loop"].raised = "none" /\ frame'["loop"].raised = "error_other")
          => /\ is_running' = is_running
             /\ live_chat_id' = live_chat_id
             /\ monitor_task' = monitor_task
             /\ pc'["loop"] = "loop_after_pm"
       /\ (pc["loop"] = "loop_after_pm" /\ pc'["loop"] # "loop_after_pm")
          => /\ pc'["loop"] = "loop_sleep"
             /\ frame'["loop"].wake = now + PollInterval
       /\ (monitor_task = "cancelled" /\ pc'["loop"] # pc["loop"])
          => pc'["loop"] = "idle" /\ monitor_task' = "done"]_vars

\* C21 witness: the tick before ended in the handler, the monitor is still
\* Running and the next tick has issued its fetch one poll interval later
C21_Witness ==
    /\ pc["loop"] = "pm_fetch_wait"
    /\ frame["loop"].prevRaised = "error_other"
    /\ is_running
    /\ monitor_task = "active"
    /\ fetches = 2
    /\ now >= StartClock + PollInterval

\* C22: a stop_monitoring() that cancels the tick task leaves is_running
\* false; is_running becomes true again only by a start_monitoring(); the
\* cancelled task begins no other tick, and it eventually terminates.
C22_StopEndsTheTask ==
    /\ [][(monitor_task # "cancelled" /\ monitor_task' = "cancelled")
             => ~is_running']_vars
    /\ [][(~is_running /\ is_running') => starts' = starts + 1]_vars
    /\ [][monitor_task = "cancelled"
             => ~(pc["loop"] # "pm_entry" /\ pc'["loop"] = "pm_entry")]_vars
    /\ (monitor_task = "cancelled" ~> monitor_task = "done")

\* C22 witness: the stop came while the tick was awaiting its fetch, and the
\* task has terminated without another fetch and with the monitor Stopped
C22_Witness ==
    /\ monitor_task = "done"
    /\ ~is_running
    /\ pc["loop"] = "idle"
    /\ fetches = 1
    /\ starts = 0
    /\ pc["task"] = "task_wait"
    /\ next_page_token = None

\* the responder's call for the message of the tick ended without a reply
NoReplyFromResponder ==
    pc["loop"] = "pm_after_gen" /\ frame["loop"].resp \in {"empty", "raise"}

\* C23: when the responder raises or returns nothing for a message,
\* last_used and is_running stay as they are, no send is begun for the
\* message, and the tick goes on with the items left in the batch.
C23_NoReplyIsHarmless ==
    [][/\ (pc["loop"] = "gen_http_wait" /\ pc'["loop"] = "pm_after_gen"
           /\ frame'["loop"].resp \in {"empty", "raise"})
          => last_used' = last_used /\ is_running' = is_running
       /\ (NoReplyFromResponder /\ pc'["loop"] # "pm_after_gen")
          => /\ pc'["loop"] = "pm_items"
             /\ frame'["loop"].items = frame["loop"].items
             /\ last_used' = last_used
             /\ is_running' = is_running
             /\ RawInFlight' = RawInFlight]_vars

\* C23 witness: the responder gave nothing for m1, which the gate had let
\* through; m2 of the same batch was then let through and is being sent
C23_Witness ==
    /\ pc["loop"] = "send_wait"
    /\ frame["loop"].msg.id = "m2"
    /\ fetches = 1
    /\ gateEvals["m1"] = 1
    /\ replyGate # {}
    /\ \A g \in replyGate : g[1] = "m2"

\* C24: without an API key no message ever leads to a reply send (the
\* responder is not called, no send with retry is begun, last_used stays at
\* its initial value), and no step of a tick changes is_running.
C24_NoKeyNoReply ==
    /\ [](~openrouter_key =>
            /\ replyGate = {}
            /\ last_used = 0
            /\ pc["loop"] \notin {"gen_http_wait", "retry_entry", "pm_after_send"}
            /\ \A k \in 1..Len(stack["loop"]) : stack["loop"][k] # "pm_after_send")
    /\ [][(~openrouter_key /\ running # None) => is_running' = is_running]_vars

\* C24 witness: without a key, a message was fetched, marked seen, notified
\* to the subscriber and denied by the gate, and an idle filler was sent later
\* in the same session
C24_Witness ==
    /\ ~openrouter_key
    /\ is_running
    /\ subscribers # <<>>
    /\ "m1" \in processed_messages
    /\ notifyCycles["m1"] = 1
    /\ gateEvals["m1"] = 1
    /\ last_idle_message_at # 0
    /\ fetches = 2

\* C25: the id of a new message is in the seen set before its first
\* subscriber is invoked; the subscribers are invoked in insertion order; and
\* all of them have been invoked when the monitor's own gate evaluation for
\* the message begins and when it is over, with or without a reply.
C25_NotifiedBeforeGate ==
    /\ (pc["loop"] = "pm_notify" /\ frame["loop"].invoked = <<>>)
          => frame["loop"].msg.id \in processed_messages
    /\ frame["loop"].msg.id # None
          => \E k \in 0..Len(subscribers) :
                frame["loop"].invoked = SubSeq(subscribers, 1, k)
    /\ (pc["loop"] = "gen_entry" /\ Head(stack["loop"]) = "pm_after_gen")
          => frame["loop"].invoked = subscribers
    /\ pc["loop"] = "pm_after_gen" => frame["loop"].invoked = subscribers

\* C25 witness: no reply was generated for a message, and both subscribers
\* had been invoked for it, in the order in which they were registered
C25_Witness ==
    /\ pc["loop"] = "pm_after_gen"
    /\ frame["loop"].gated
    /\ frame["loop"].reply = <<>>
    /\ Len(subscribers) = 2
    /\ frame["loop"].invoked = subscribers
    /\ ~frame["loop"].subRaised

\* C26: when a tick of the running session is back in its driver, no new
\* message of the batch it fetched is left unprocessed.
C26_NoDequeuedMessageLost ==
    (pc["loop"] = "loop_after_pm" /\ is_running
     /\ frame["loop"].fetchStarts = starts)
       => \A k \in 1..Len(frame["loop"].items) :
             LET item == frame["loop"].items[k]
             IN  ~(item.id \in Ids /\ item.text # <<>>
                   /\ item.id \notin processed_messages)

(***************************************************************************)
(* C27: Welcome.send_message_with_retry returns True only if the message   *)
(* was delivered; a call none of whose sends delivered it has made         *)
(* max_retries attempts and returns False.                                 *)
(***************************************************************************)
C27_TrueOnlyIfDelivered ==
    (pc["wel"] = "idle" /\ frame["wel"].calls > 0) =>
        /\ frame["wel"].result => frame["wel"].delivered
        /\ ~frame["wel"].delivered =>
               /\ ~frame["wel"].result
               /\ frame["wel"].attempt = max_retries

C29_QueueBounded ==
    /\ [](Len(message_queue) <= max_queue_size)
    /\ [][Len(message_queue) = max_queue_size =>
             \A j \in 1..Len(message_queue') : Queued(message_queue'[j].id)]_vars

\* a call all of whose sends raised has returned False while the queue was
\* full, and its message is not queued
C29_Witness ==
    /\ pc["wel"] = "idle"
    /\ frame["wel"].calls > max_queue_size
    /\ frame["wel"].attempt = max_retries
    /\ ~frame["wel"].result
    /\ ~Queued(frame["wel"].calls)
    /\ Len(message_queue) = max_queue_size

(***************************************************************************)
(* C30: no queued entry is retried for ever: the sweep makes at most       *)
(* MaxSweepAttempts re-sends for an entry, and under fair scheduling of    *)
(* the sweep every queued entry eventually leaves the queue, whatever the  *)
(* sends do and also when more entries are queued than one sweep walks.    *)
(***************************************************************************)
C30_NoEndlessRetry ==
    /\ [](\A k \in 1..Len(message_queue) :
             message_queue[k].sends <= MaxSweepAttempts)
    /\ \A id \in 1..MaxWelcomes : Queued(id) ~> ~Queued(id)

\* more entries are queued than one sweep walks, and the sweep has just
\* given up the first after MaxSweepAttempts re-sends that all raised
C30_Witness ==
    /\ Len(message_queue) > SweepSlice
    /\ message_queue[1].sends = MaxSweepAttempts
    /\ message_queue[1].attempts > MaxSweepAttempts
    /\ ~message_queue[1].ok
    /\ message_queue[1].id \in frame["sweep"].successful
    /\ pc["sweep"] = "sweep_item"

(***************************************************************************)
(* C31: a reply generated for a message is sent only to the chat the       *)
(* message was fetched from, whatever stop, start on another chat and a    *)
(* tick in flight do.                                                      *)
(***************************************************************************)
C31_ReplyStaysInItsChat ==
    \A p \in {"loop", "task"} :
        (pc[p] = "send_wait" /\ frame[p].msg # NoMsg)
        => frame[p].target = frame[p].chat

(***************************************************************************)
(* C32: while the monitor is Stopped no subscriber is notified, no         *)
(* responder call and no sendRaw is started by a tick, and the set of seen *)
(* ids and the cursor stay empty, also when a tick was in flight at the    *)
(* stop.                                                                   *)
(***************************************************************************)
C32_NothingAfterStop ==
    /\ [](~is_running => processed_messages = {} /\ next_page_token = None)
    /\ [][~is_running =>
             \A p \in {"loop", "task"} :
                /\ pc'[p] \in {"sub_entry", "ryt_entry"} => pc'[p] = pc[p]
                /\ pc'[p] = "gen_http_wait" => pc[p] = "gen_http_wait"
                /\ pc'[p] = "send_wait" => pc[p] = "send_wait"]_vars

(***************************************************************************)
(* C33: one inbound message yields at most one automated reply sent to the *)
(* chat, the reply of the RukiyaCog subscriber and the reply of the        *)
(* monitor's own gate-and-reply step counted together.                     *)
(***************************************************************************)
C33_AtMostOneReply == \A p \in {"loop", "task"} : frame[p].replies <= 1

(***************************************************************************)
(* C34: a fetched item without an id or with an empty text is skipped      *)
(* entirely: the step that reads it notifies nobody, evaluates no gate,    *)
(* and leaves the set of seen ids and the activity time as they are.       *)
(***************************************************************************)
C34_IncompleteItemSkipped ==
    [][(/\ pc["loop"] = "pm_items"
        /\ frame["loop"].items # <<>>
        /\ \/ Head(frame["loop"].items).id = None
           \/ Head(frame["loop"].items).text = <<>>)
       => /\ processed_messages' = processed_messages
          /\ last_activity_at' = last_activity_at
          /\ notifyCycles' = notifyCycles
          /\ gateEvals' = gateEvals
          /\ pc'["loop"] = "pm_items"
          /\ frame'["loop"].items = Tail(frame["loop"].items)
          /\ frame'["loop"].msg = frame["loop"].msg
          /\ frame'["loop"].invoked = frame["loop"].invoked]_vars

\* the first item of the first page has been read and left no trace
C34_Witness ==
    /\ pc["loop"] = "pm_items"
    /\ fetches = 1
    /\ Len(frame["loop"].items) = BatchLen - 1
    /\ frame["loop"].msg = NoMsg
    /\ processed_messages = {}
    /\ last_activity_at = StartClock
    /\ now > StartClock

(***************************************************************************)
(* C35: a send moves the activity time only when sendRaw reported success. *)
(* A send whose sendRaw returned a falsy result or raised returns false    *)
(* and leaves the activity time, the time of the last filler, the cursor   *)
(* and the set of seen ids as they were.                                   *)
(***************************************************************************)
C35_ActivityOnlyOnSuccess ==
    [][/\ last_activity_at' # last_activity_at =>
             /\ pc["rt"] = "send_wait" /\ pc'["rt"] = "send_cool"
             /\ frame'["rt"].result
             /\ last_activity_at' = now
       /\ (/\ pc["rt"] = "send_wait" /\ pc'["rt"] # "send_wait"
           /\ ~(pc'["rt"] = "send_cool" /\ frame'["rt"].result))
          => /\ last_activity_at' = last_activity_at
             /\ last_idle_message_at' = last_idle_message_at
             /\ next_page_token' = next_page_token
             /\ processed_messages' = processed_messages
             /\ pc'["rt"] # "send_cool" => ~frame'["rt"].ok
       /\ (pc["rt"] = "send_cool" /\ pc'["rt"] # "send_cool")
          => frame'["rt"].ok = frame["rt"].result]_vars

\* a send whose sendRaw returned a falsy result or raised, some time after
\* the last activity, has returned False
C35_Witness ==
    /\ pc["rt"] = "retry_after_send"
    /\ frame["rt"].calls = 1
    /\ ~frame["rt"].ok
    /\ lastRawOkAt = -1
    /\ live_chat_id # None
    /\ frame["rt"].text # <<>>
    /\ now > StartClock + SendCooldown
    /\ last_activity_at = StartClock

(***************************************************************************)
(* C36: a notification cycle walks the subscriber list as it was when the  *)
(* cycle began: callbacks registered or removed during the cycle do not    *)
(* change who is called in it, and every callback of that list is called   *)
(* exactly once.                                                           *)
(***************************************************************************)
C36_CycleUsesSnapshot ==
    \A p \in {"loop", "task"} :
        /\ frame[p].msg # NoMsg =>
               /\ frame[p].invoked \o frame[p].subs = frame[p].snap
               /\ \A i, j \in 1..Len(frame[p].invoked) :
                      frame[p].invoked[i] = frame[p].invoked[j] => i = j
        /\ pc[p] = "pm_gen" => frame[p].invoked = frame[p].snap

\* the cycle is over, the list was changed while it ran, and the callbacks
\* called are those of the list the cycle began with
C36_Witness ==
    /\ pc["loop"] = "pm_gen"
    /\ frame["loop"].snap # <<>>
    /\ subscribers # frame["loop"].snap
    /\ frame["loop"].invoked = frame["loop"].snap

\* C37: a call of _call_openrouter makes at most 3 HTTP posts; it posts
\* again only after a network error or a status of 429 or 503; on any other
\* status >= 400 and on an unusable body (not JSON, JSON that is not an
\* object, an object without a text) it returns None at once; after the
\* third failed attempt it returns None; and the call always comes to an end.
C37_AtMostThreeAttempts ==
    /\ [](frame["ai"].calls <= 3)
    /\ [][ (pc["ai"] = "or_post_wait" /\ pc'["ai"] = "or_sleep")
             => frame'["ai"].http \in {"request_error", "s429", "s503"} ]_vars
    /\ [][ frame'["ai"].calls # frame["ai"].calls
             => pc["ai"] \in {"or_entry", "or_sleep"} ]_vars
    /\ [][ (pc["ai"] = "or_post_wait" /\ pc'["ai"] # "or_post_wait"
            /\ frame'["ai"].http \in {"s500", "not_json", "not_object", "no_text"})
             => (pc'["ai"] = "or_done" /\ frame'["ai"].resp = "empty") ]_vars
    /\ [][ (pc["ai"] = "or_post_wait" /\ frame["ai"].calls = 3
            /\ frame'["ai"].http \in {"request_error", "s429", "s503"})
             => (pc'["ai"] = "or_done" /\ frame'["ai"].resp = "empty") ]_vars
    /\ <>(pc["ai"] = "or_done")

\* C38: the circuit breaker of the Shayari AI.  The third generation failure
\* in a row sets a deadline one cooldown ahead, and while a deadline is ahead
\* every availability check returns False and the deadline is only moved
\* further; the first check at or after the deadline returns True, clears the
\* deadline and sets the failure count to 0; a successful generation sets the
\* failure count to 0, and a deadline is set only when the last
\* max_ai_failures generations all failed.
C38_CircuitBreaker ==
    /\ [][\A p \in {"loop", "cmd"} :
            (pc[p] = "sh_gen_wait" /\ pc'[p] = "sh_send"
             /\ gens' = <<"fail", "fail", "fail">>)
              => ai_cooldown_until' = now + AiBreakerCooldown]_vars
    /\ [][\A p \in {"loop", "cmd"} :
            (pc[p] = "sh_idle" /\ pc'[p] # "sh_idle"
             /\ ai_cooldown_until # NoDeadline /\ now < ai_cooldown_until)
              => (frame'[p].resp = "unavailable" /\ pc'[p] = "sh_send"
                  /\ ai_cooldown_until' = ai_cooldown_until)]_vars
    /\ [][(ai_cooldown_until # NoDeadline /\ ai_cooldown_until' # ai_cooldown_until)
            => \/ ai_cooldown_until' = NoDeadline /\ now >= ai_cooldown_until
               \/ ai_cooldown_until' >= ai_cooldown_until]_vars
    /\ [][\A p \in {"loop", "cmd"} :
            (pc[p] = "sh_idle" /\ pc'[p] # "sh_idle"
             /\ ai_cooldown_until # NoDeadline /\ now >= ai_cooldown_until)
              => (frame'[p].resp \in {"available", "cached"}
                  /\ ai_failure_count' = 0 /\ ai_cooldown_until' = NoDeadline)]_vars
    /\ [][\A p \in {"loop", "cmd"} :
            (pc[p] = "sh_gen_wait" /\ frame'[p].resp = "generated")
              => ai_failure_count' = 0]_vars
    /\ [][(ai_cooldown_until' # NoDeadline /\ ai_cooldown_until' # ai_cooldown_until)
            => gens' = <<"fail", "fail", "fail">>]_vars

\* the breaker was opened by three failures in a row, the deadline went by,
\* and the check made then found the AI available with the count back at 0
C38_Witness ==
    /\ gens = <<"fail", "fail", "reenabled">>
    /\ ai_failure_count = 0
    /\ ai_cooldown_until = NoDeadline
    /\ now >= StartClock + AiBreakerCooldown
    /\ \E p \in {"loop", "cmd"} :
          pc[p] = "sh_gen_wait" /\ frame[p].resp = "available"

====
